---- MODULE Spec2Model ----
(***************************************************************************)
(* Model of pdf_process: a wrapper that pipes PDF bytes to pdfinfo,        *)
(* pdftocairo and pdftotext, classifies their failures and fans page       *)
(* requests out to one subprocess per page (FuturesOrdered + try_collect). *)
(*                                                                         *)
(* Text is a sequence of symbols.  A symbol is one character ("0".."9",    *)
(* ":", " ", "(", ")", "\n", the form feed FF) or an indivisible word or   *)
(* message ("yes", "Pages", "Incorrect password").  Option<T> is <<>> for  *)
(* None and <<v>> for Some(v).                                             *)
(***************************************************************************)
EXTENDS Integers, Sequences, FiniteSets, TLC

\* ------------------------------------------------------------------ bounds
\* Largest page count a document's info reports.
MaxPages == 2
\* Longest list of requested pages.
MaxReq == 2
\* Longest text a text extraction writes to stdout.
MaxTextLen == 3
\* Longest line of pdfinfo output, in pieces (key, colon, space, word).
MaxLineLen == 4
\* Most options in the brackets of an Encrypted field.
MaxOptions == 2

\* ------------------------------------------------------- program constants
\* The exit code pdftocairo uses for a permission error.
PermissionExitCode == 3

VARIABLES
    op,                  \* the public function that was called
    info,                \* the PdfInfo handed to it (HashMap<String, String>)
    password,            \* args.password : Option<Password>
    pages,               \* the requested page numbers (one element for *_single_page)
    pc,                  \* "idle" | "running" | "done" : position of the call
    tasks,               \* one record per tool invocation future
    next_outgoing_index, \* FuturesOrdered: 1-based index of the next output to yield
    collected,           \* try_collect: the items gathered so far
    ret,                 \* Option<Result<..>> : the value the call returned
    arg,                 \* the input of a function applied on its own (no subprocess)
    applied              \* name |-> value of the functions applied to arg so far

vars == <<op, info, password, pages, pc, tasks, next_outgoing_index, collected, ret,
          arg, applied>>

\* ---------------------------------------------------------------- Option
None == <<>>
Some(v) == <<v>>
is_none(o) == o = <<>>
is_some(o) == o /= <<>>
unwrap(o) == o[1]
\* Option<bool>::unwrap_or_default
unwrap_or_default(o) == IF o = <<>> THEN FALSE ELSE o[1]

\* ---------------------------------------------------------------- Result
Ok(v) == [ok |-> TRUE, kind |-> "Ok", a |-> 0, b |-> 0, msg |-> <<>>, val |-> v]
Err(kind) == [ok |-> FALSE, kind |-> kind, a |-> 0, b |-> 0, msg |-> <<>>, val |-> <<>>]
\* An error variant carrying the raw stderr text.
ErrMsg(kind, msg) == [ok |-> FALSE, kind |-> kind, a |-> 0, b |-> 0, msg |-> msg, val |-> <<>>]
PageOutOfBounds(p, n) ==
    [ok |-> FALSE, kind |-> "PageOutOfBounds", a |-> p, b |-> n, msg |-> <<>>, val |-> <<>>]

\* ---------------------------------------------------------------- strings
FF == "\f"
NL == "\n"
YES == "yes"
NOT_PDF == "May not be a PDF file"
INCORRECT_PASSWORD == "Incorrect password"

\* str::starts_with
starts_with(s, p) == Len(s) >= Len(p) /\ SubSeq(s, 1, Len(p)) = p
\* str::ends_with
ends_with(s, p) == Len(s) >= Len(p) /\ SubSeq(s, Len(s) - Len(p) + 1, Len(s)) = p
\* str::contains
contains(s, p) == \E i \in 1..(Len(s) + 1) :
    i + Len(p) - 1 <= Len(s) /\ SubSeq(s, i, i + Len(p) - 1) = p

Digits == <<"0", "1", "2", "3", "4", "5", "6", "7", "8", "9">>
IsDigit(c) == \E d \in 1..10 : Digits[d] = c
DigitVal(c) == (CHOOSE d \in 1..10 : Digits[d] = c) - 1

\* u32::to_string
RECURSIVE to_string(_)
to_string(n) == IF n < 10 THEN <<Digits[n + 1]>>
                ELSE to_string(n \div 10) \o <<Digits[(n % 10) + 1]>>

\* The decimal digits of u32::MAX (4294967295).
U32MaxDigits == <<"4", "2", "9", "4", "9", "6", "7", "2", "9", "5">>

RECURSIVE strip_zeros(_)
strip_zeros(s) == IF Len(s) > 1 /\ Head(s) = "0" THEN strip_zeros(Tail(s)) ELSE s

\* a <= b for digit strings of equal length
RECURSIVE DigitsLeq(_, _)
DigitsLeq(x, y) ==
    IF x = <<>> THEN TRUE
    ELSE IF DigitVal(Head(x)) /= DigitVal(Head(y)) THEN DigitVal(Head(x)) < DigitVal(Head(y))
    ELSE DigitsLeq(Tail(x), Tail(y))

\* The checked_mul / checked_add of u32::from_str never overflow: value <= u32::MAX.
FitsU32(s) ==
    \/ Len(strip_zeros(s)) < Len(U32MaxDigits)
    \/ Len(strip_zeros(s)) = Len(U32MaxDigits) /\ DigitsLeq(strip_zeros(s), U32MaxDigits)

\* The digit loop of u32::from_str: result = result * 10 + digit.
RECURSIVE FromDigits(_, _)
FromDigits(s, acc) ==
    IF s = <<>> THEN acc ELSE FromDigits(Tail(s), acc * 10 + DigitVal(Head(s)))

\* str::parse::<u32> : Result<u32, ParseIntError>.  A leading "+" is accepted, a
\* "-" is an invalid digit of an unsigned type.
parse_u32(s) ==
    LET digits == IF s /= <<>> /\ Head(s) = "+" THEN Tail(s) ELSE s
    IN IF digits = <<>> THEN Err("ParseIntError")
       ELSE IF \E k \in 1..Len(digits) : ~IsDigit(digits[k]) THEN Err("ParseIntError")
       ELSE IF ~FitsU32(digits) THEN Err("ParseIntError")
       ELSE Ok(FromDigits(digits, 0))

\* ---------------------------------------------------------------- PdfInfo
K_Pages == <<"Pages">>
K_Encrypted == <<"Encrypted">>

\* PdfInfo::data : HashMap::get
data(i, key) == IF key \in DOMAIN i THEN Some(i[key]) ELSE None

\* PdfInfo::pages : Option<Result<u32, ParseIntError>>
info_pages(i) ==
    IF is_none(data(i, K_Pages)) THEN None ELSE Some(parse_u32(unwrap(data(i, K_Pages))))

\* Mutant of encrypted: compares with "yes" instead of testing the prefix.
encrypted_exact(i) ==
    IF is_none(data(i, K_Encrypted)) THEN None
    ELSE Some(unwrap(data(i, K_Encrypted)) = <<YES>>)

\* PdfInfo::encrypted : Option<bool>
encrypted(i) ==
    IF is_none(data(i, K_Encrypted)) THEN None
    ELSE Some(starts_with(unwrap(data(i, K_Encrypted)), <<YES>>))

\* Mutant of parse_bool: tests the prefix, as encrypted does.
parse_bool_prefix(value) == starts_with(value, <<YES>>)

\* info::parse_bool
parse_bool(value) == value = <<YES>>

\* Option::map(parse_bool)
map_parse_bool(o) == IF is_none(o) THEN None ELSE Some(parse_bool(unwrap(o)))

\* The accessors of PdfInfo that hand out the stored text: Option<&str>
title(i) == data(i, <<"Title">>)
subject(i) == data(i, <<"Subject">>)
keywords(i) == data(i, <<"Keywords">>)
creator(i) == data(i, <<"Creator">>)
producer(i) == data(i, <<"Producer">>)
creation_date(i) == data(i, <<"CreationDate">>)
mod_date(i) == data(i, <<"ModDate">>)
author(i) == data(i, <<"Author">>)
form(i) == data(i, <<"Form">>)
page_size(i) == data(i, <<"Page", " ", "size">>)
encryption_raw(i) == data(i, K_Encrypted)
page_rot(i) == data(i, <<"Page", " ", "rot">>)
file_size(i) == data(i, <<"File", " ", "size">>)
pdf_version(i) == data(i, <<"PDF", " ", "version">>)

\* The accessors of PdfInfo that parse a yes/no field: Option<bool>
custom_metadata(i) == map_parse_bool(data(i, <<"Custom", " ", "Metadata">>))
metadata_stream(i) == map_parse_bool(data(i, <<"Metadata", " ", "Stream">>))
tagged(i) == map_parse_bool(data(i, <<"Tagged">>))
user_properties(i) == map_parse_bool(data(i, <<"UserProperties">>))
suspects(i) == map_parse_bool(data(i, <<"Suspects">>))
javascript(i) == map_parse_bool(data(i, <<"JavaScript">>))
optimized(i) == map_parse_bool(data(i, <<"Optimized">>))

\* char::is_whitespace, on the symbols of the model
is_whitespace(c) == c \in {" ", "\t", NL, FF, "\r"}

\* str::trim_start
RECURSIVE trim_start(_)
trim_start(s) == IF s /= <<>> /\ is_whitespace(Head(s)) THEN trim_start(Tail(s)) ELSE s

\* Index of the first occurrence of symbol c in s, 0 when there is none.
find(s, c) == IF \E i \in 1..Len(s) : s[i] = c
              THEN CHOOSE i \in 1..Len(s) : s[i] = c /\ \A j \in 1..(i - 1) : s[j] /= c
              ELSE 0

\* str::split_once : Option<(&str, &str)>
split_once(s, c) ==
    IF find(s, c) = 0 THEN None
    ELSE Some(<<SubSeq(s, 1, find(s, c) - 1), SubSeq(s, find(s, c) + 1, Len(s))>>)

\* str::lines : split at "\n", drop one trailing "\r" per line, no empty last line
RECURSIVE lines(_)
lines(s) ==
    LET strip_cr(l) == IF ends_with(l, <<"\r">>) THEN SubSeq(l, 1, Len(l) - 1) ELSE l
    IN IF s = <<>> THEN <<>>
       ELSE IF find(s, NL) = 0 THEN <<strip_cr(s)>>
       ELSE <<strip_cr(SubSeq(s, 1, find(s, NL) - 1))>> \o lines(SubSeq(s, find(s, NL) + 1, Len(s)))

\* Mutant of parse_pdf_info_line: the value keeps its leading whitespace.
parse_pdf_info_line_untrimmed(line) ==
    IF is_none(split_once(line, ":")) THEN None
    ELSE Some(<<unwrap(split_once(line, ":"))[1], unwrap(split_once(line, ":"))[2]>>)

\* The filter_map closure of parse_pdf_info: Option<(key, value)> of one line.
parse_pdf_info_line(line) ==
    IF is_none(split_once(line, ":")) THEN None
    ELSE Some(<<unwrap(split_once(line, ":"))[1], trim_start(unwrap(split_once(line, ":"))[2])>>)

\* info::parse_pdf_info : collect() into a HashMap keeps the last entry of a key.
parse_pdf_info(output) ==
    LET ls == lines(output)
        entries == {k \in 1..Len(ls) : is_some(parse_pdf_info_line(ls[k]))}
        keys == {unwrap(parse_pdf_info_line(ls[k]))[1] : k \in entries}
        last(key) == CHOOSE k \in entries :
            /\ unwrap(parse_pdf_info_line(ls[k]))[1] = key
            /\ \A j \in entries : unwrap(parse_pdf_info_line(ls[j]))[1] = key => j <= k
    IN Ok([key \in keys |-> unwrap(parse_pdf_info_line(ls[last(key)]))[2]])

\* ------------------------------------------------- the encryption details
\* str::split_whitespace : the maximal runs of symbols that are not whitespace
RECURSIVE split_whitespace(_)
split_whitespace(s) ==
    LET t == trim_start(s)
        n == IF \E i \in 1..Len(t) : is_whitespace(t[i])
             THEN (CHOOSE i \in 1..Len(t) :
                      is_whitespace(t[i]) /\ \A j \in 1..(i - 1) : ~is_whitespace(t[j])) - 1
             ELSE Len(t)
    IN IF t = <<>> THEN <<>>
       ELSE <<SubSeq(t, 1, n)>> \o split_whitespace(SubSeq(t, n + 1, Len(t)))

\* str::strip_prefix and str::strip_suffix with a char pattern
strip_prefix(s, c) == IF s /= <<>> /\ Head(s) = c THEN Some(Tail(s)) ELSE None
strip_suffix(s, c) == IF s /= <<>> /\ s[Len(s)] = c THEN Some(SubSeq(s, 1, Len(s) - 1)) ELSE None

\* The filter_map closure of parse_pdf_info_encryption, then collect() into a
\* HashMap, which keeps the last entry of a key.
collect_options(parts) ==
    LET entry(k) == split_once(parts[k], ":")
        entries == {k \in 1..Len(parts) : is_some(entry(k))}
        keys == {unwrap(entry(k))[1] : k \in entries}
        last(key) == CHOOSE k \in entries :
            /\ unwrap(entry(k))[1] = key
            /\ \A j \in entries : unwrap(entry(j))[1] = key => j <= k
    IN [key \in keys |-> trim_start(unwrap(entry(last(key)))[2])]

\* info::parse_pdf_info_encryption
parse_pdf_info_encryption(output) ==
    IF is_none(split_once(output, " ")) THEN Err("MalformedEncryptionOptions")
    ELSE LET encrypted_ == unwrap(split_once(output, " "))[1]
             options == unwrap(split_once(output, " "))[2]
         IN IF is_none(strip_prefix(options, "(")) THEN Err("MalformedEncryptionOptions")
            ELSE IF is_none(strip_suffix(unwrap(strip_prefix(options, "(")), ")"))
            THEN Err("MalformedEncryptionOptions")
            ELSE Ok([encrypted |-> parse_bool(encrypted_),
                     options |-> collect_options(split_whitespace(
                         unwrap(strip_suffix(unwrap(strip_prefix(options, "(")), ")"))))])

\* PdfInfo::encryption : Option<Result<PdfInfoEncryption, PdfInfoError>>
encryption(i) ==
    IF is_none(data(i, K_Encrypted)) THEN None
    ELSE Some(parse_pdf_info_encryption(unwrap(data(i, K_Encrypted))))

\* PdfInfoEncryption::is_encrypted
is_encrypted(e) == e.encrypted

\* Mutant of is_copy_allowed: copying is allowed only when the option says so.
is_copy_allowed_strict(e) ==
    IF <<"copy">> \in DOMAIN e.options THEN e.options[<<"copy">>] = <<YES>> ELSE FALSE

\* PdfInfoEncryption::is_print_allowed and the like: options.get(key), None => true
is_print_allowed(e) ==
    IF <<"print">> \in DOMAIN e.options THEN e.options[<<"print">>] = <<YES>> ELSE TRUE
is_copy_allowed(e) ==
    IF <<"copy">> \in DOMAIN e.options THEN e.options[<<"copy">>] = <<YES>> ELSE TRUE
is_change_allowed(e) ==
    IF <<"change">> \in DOMAIN e.options THEN e.options[<<"change">>] = <<YES>> ELSE TRUE
is_add_notes_allowed(e) ==
    IF <<"addNotes">> \in DOMAIN e.options THEN e.options[<<"addNotes">>] = <<YES>> ELSE TRUE

\* PdfInfoEncryption::algorithm : Option<&str>
algorithm(e) ==
    IF <<"algorithm">> \in DOMAIN e.options THEN Some(e.options[<<"algorithm">>]) ELSE None

\* --------------------------------------------------- checks before dispatch
\* "Check encryption": info.encrypted().unwrap_or_default() && args.password.is_none()
encryption_check(i, pw) == unwrap_or_default(encrypted(i)) /\ is_none(pw)

\* Mutant of page_count: a Pages field that does not parse counts as no pages.
page_count_or_default(i) ==
    IF is_none(info_pages(i)) THEN Err("PageCountUnknown")
    ELSE IF ~unwrap(info_pages(i)).ok THEN Ok(0)
    ELSE Ok(unwrap(info_pages(i)).val)

\* "Get the page count": pages().ok_or(PageCountUnknown)?.map_err(|_| PageCountUnknown)?
page_count(i) ==
    IF is_none(info_pages(i)) THEN Err("PageCountUnknown")
    ELSE IF ~unwrap(info_pages(i)).ok THEN Err("PageCountUnknown")
    ELSE Ok(unwrap(info_pages(i)).val)

\* Mutant of validate_pages: rejects page == page_count as well.
RECURSIVE validate_pages_ge(_, _)
validate_pages_ge(ps, n) ==
    IF ps = <<>> THEN None
    ELSE IF Head(ps) >= n THEN Some(PageOutOfBounds(Head(ps), n))
    ELSE validate_pages_ge(Tail(ps), n)

\* Mutant of validate_pages: validates only the page about to be dispatched first.
validate_pages_first(ps, n) ==
    IF ps = <<>> THEN None
    ELSE IF Head(ps) > n THEN Some(PageOutOfBounds(Head(ps), n))
    ELSE None

\* "Validate requested pages": the for loop returns at the first page > page_count.
RECURSIVE validate_pages(_, _)
validate_pages(ps, n) ==
    IF ps = <<>> THEN None
    ELSE IF Head(ps) > n THEN Some(PageOutOfBounds(Head(ps), n))
    ELSE validate_pages(Tail(ps), n)

\* Mutant of range_inclusive: 1..page_count, without the last page.
range_exclusive(n) == [k \in 1..(n - 1) |-> k]

\* 1..=page_count as a list
range_inclusive(n) == [k \in 1..n |-> k]

\* What a public function decides before its first await: Err(e) to return e at
\* once, Ok(list) with the page of every tool invocation it creates.
render_all_pages_pre(i, pw) ==
    IF encryption_check(i, pw) THEN Err("PdfEncrypted")
    ELSE IF ~page_count(i).ok THEN page_count(i)
    ELSE Ok([k \in DOMAIN range_inclusive(page_count(i).val) |->
                Some(range_inclusive(page_count(i).val)[k])])

render_pages_pre(i, pw, ps) ==
    IF encryption_check(i, pw) THEN Err("PdfEncrypted")
    ELSE IF ~page_count(i).ok THEN page_count(i)
    ELSE IF is_some(validate_pages(ps, page_count(i).val))
         THEN unwrap(validate_pages(ps, page_count(i).val))
    ELSE Ok([k \in 1..Len(ps) |-> Some(ps[k])])

\* Mutant of render_single_page_pre: the page checks run before the encryption check.
render_single_page_pre_bounds_first(i, pw, page) ==
    IF ~page_count(i).ok THEN page_count(i)
    ELSE IF page > page_count(i).val THEN PageOutOfBounds(page, page_count(i).val)
    ELSE IF encryption_check(i, pw) THEN Err("PdfEncrypted")
    ELSE Ok(<<Some(page)>>)

render_single_page_pre(i, pw, page) ==
    IF encryption_check(i, pw) THEN Err("PdfEncrypted")
    ELSE IF ~page_count(i).ok THEN page_count(i)
    ELSE IF page > page_count(i).val THEN PageOutOfBounds(page, page_count(i).val)
    ELSE Ok(<<Some(page)>>)

text_all_pages_pre(i, pw) ==
    IF encryption_check(i, pw) THEN Err("PdfEncrypted") ELSE Ok(<<None>>)

text_all_pages_split_pre(i, pw) ==
    IF encryption_check(i, pw) THEN Err("PdfEncrypted") ELSE Ok(<<None>>)

text_pages_pre(i, pw, ps) ==
    IF encryption_check(i, pw) THEN Err("PdfEncrypted")
    ELSE IF ~page_count(i).ok THEN page_count(i)
    ELSE IF is_some(validate_pages(ps, page_count(i).val))
         THEN unwrap(validate_pages(ps, page_count(i).val))
    ELSE Ok([k \in 1..Len(ps) |-> Some(ps[k])])

text_single_page_pre(i, pw, page) ==
    IF encryption_check(i, pw) THEN Err("PdfEncrypted")
    ELSE IF ~page_count(i).ok THEN page_count(i)
    ELSE IF page > page_count(i).val THEN PageOutOfBounds(page, page_count(i).val)
    ELSE Ok(<<Some(page)>>)

\* pdf_info has no PdfInfo to consult: it goes straight to Command::spawn.
pdf_info_pre == Ok(<<None>>)

\* ------------------------------------------------------ the external tools
INVALID_BYTE == "<0xFF>"
REPLACEMENT_CHARACTER == "<U+FFFD>"

\* String::from_utf8_lossy : every invalid byte becomes U+FFFD
from_utf8_lossy(bytes) ==
    [k \in 1..Len(bytes) |-> IF bytes[k] = INVALID_BYTE THEN REPLACEMENT_CHARACTER ELSE bytes[k]]

\* ExitStatus::success
success(out) == out.code = Some(0)

\* image::load_from_memory_with_format : the decoded image, or ImageError
load_from_memory_with_format(stdout) ==
    IF stdout /= <<>> /\ Head(stdout) = "img" THEN Ok(Tail(stdout)) ELSE Err("Image")

\* Mutant of render_page_output: every exit code but 0 is a permission error.
render_page_output_any_code(pw, out) ==
    IF ~success(out) THEN
        IF contains(from_utf8_lossy(out.stderr), <<NOT_PDF>>) THEN Err("NotPdfFile")
        ELSE IF contains(from_utf8_lossy(out.stderr), <<INCORRECT_PASSWORD>>)
             THEN (IF is_none(pw) THEN Err("PdfEncrypted") ELSE Err("IncorrectPassword"))
        ELSE IF is_some(out.code)
             THEN ErrMsg("PermissionError", from_utf8_lossy(out.stderr))
        ELSE ErrMsg("PdfRenderFailure", from_utf8_lossy(out.stderr))
    ELSE load_from_memory_with_format(out.stdout)

\* image::render_page, from the exit of pdftocairo on
render_page_output(pw, out) ==
    IF ~success(out) THEN
        IF contains(from_utf8_lossy(out.stderr), <<NOT_PDF>>) THEN Err("NotPdfFile")
        ELSE IF contains(from_utf8_lossy(out.stderr), <<INCORRECT_PASSWORD>>)
             THEN (IF is_none(pw) THEN Err("PdfEncrypted") ELSE Err("IncorrectPassword"))
        ELSE IF out.code = Some(PermissionExitCode)
             THEN ErrMsg("PermissionError", from_utf8_lossy(out.stderr))
        ELSE ErrMsg("PdfRenderFailure", from_utf8_lossy(out.stderr))
    ELSE load_from_memory_with_format(out.stdout)

\* Mutant of pages_text_output: looks for "Incorrect password" first.
pages_text_output_password_first(pw, out) ==
    IF ~success(out) THEN
        IF contains(from_utf8_lossy(out.stderr), <<INCORRECT_PASSWORD>>)
        THEN (IF is_none(pw) THEN Err("PdfEncrypted") ELSE Err("IncorrectPassword"))
        ELSE IF contains(from_utf8_lossy(out.stderr), <<NOT_PDF>>) THEN Err("NotPdfFile")
        ELSE ErrMsg("PdfTextFailure", from_utf8_lossy(out.stderr))
    ELSE Ok(from_utf8_lossy(out.stdout))

\* text::pages_text, from the exit of pdftotext on
pages_text_output(pw, out) ==
    IF ~success(out) THEN
        IF contains(from_utf8_lossy(out.stderr), <<NOT_PDF>>) THEN Err("NotPdfFile")
        ELSE IF contains(from_utf8_lossy(out.stderr), <<INCORRECT_PASSWORD>>)
             THEN (IF is_none(pw) THEN Err("PdfEncrypted") ELSE Err("IncorrectPassword"))
        ELSE ErrMsg("PdfTextFailure", from_utf8_lossy(out.stderr))
    ELSE Ok(from_utf8_lossy(out.stdout))

\* Mutant of page_text_output: does not look at args.password.
page_text_output_any_password(pw, out) ==
    IF ~success(out) THEN
        IF contains(from_utf8_lossy(out.stderr), <<NOT_PDF>>) THEN Err("NotPdfFile")
        ELSE IF contains(from_utf8_lossy(out.stderr), <<INCORRECT_PASSWORD>>)
             THEN Err("PdfEncrypted")
        ELSE ErrMsg("PdfTextFailure", from_utf8_lossy(out.stderr))
    ELSE IF ends_with(from_utf8_lossy(out.stdout), <<FF>>)
         THEN Ok(SubSeq(from_utf8_lossy(out.stdout), 1, Len(out.stdout) - 1))
    ELSE Ok(from_utf8_lossy(out.stdout))

\* Mutant of page_text_output: every trailing form feed is removed (trim_end_matches).
page_text_output_trim_end(pw, out) ==
    IF ~success(out) THEN
        IF contains(from_utf8_lossy(out.stderr), <<NOT_PDF>>) THEN Err("NotPdfFile")
        ELSE IF contains(from_utf8_lossy(out.stderr), <<INCORRECT_PASSWORD>>)
             THEN (IF is_none(pw) THEN Err("PdfEncrypted") ELSE Err("IncorrectPassword"))
        ELSE ErrMsg("PdfTextFailure", from_utf8_lossy(out.stderr))
    ELSE LET kept == CHOOSE n \in 0..Len(out.stdout) :
                        /\ \A j \in (n + 1)..Len(out.stdout) : out.stdout[j] = FF
                        /\ n > 0 => out.stdout[n] /= FF
         IN Ok(SubSeq(from_utf8_lossy(out.stdout), 1, kept))

\* text::page_text, from the exit of pdftotext on: one trailing form feed is popped
page_text_output(pw, out) ==
    IF ~success(out) THEN
        IF contains(from_utf8_lossy(out.stderr), <<NOT_PDF>>) THEN Err("NotPdfFile")
        ELSE IF contains(from_utf8_lossy(out.stderr), <<INCORRECT_PASSWORD>>)
             THEN (IF is_none(pw) THEN Err("PdfEncrypted") ELSE Err("IncorrectPassword"))
        ELSE ErrMsg("PdfTextFailure", from_utf8_lossy(out.stderr))
    ELSE IF ends_with(from_utf8_lossy(out.stdout), <<FF>>)
         THEN Ok(SubSeq(from_utf8_lossy(out.stdout), 1, Len(out.stdout) - 1))
    ELSE Ok(from_utf8_lossy(out.stdout))

\* Mutant of pdf_info_output: the password test is inverted.
pdf_info_output_inverted(pw, out) ==
    IF ~success(out) THEN
        IF contains(from_utf8_lossy(out.stderr), <<NOT_PDF>>) THEN Err("NotPdfFile")
        ELSE IF contains(from_utf8_lossy(out.stderr), <<INCORRECT_PASSWORD>>)
             THEN (IF is_some(pw) THEN Err("PdfEncrypted") ELSE Err("IncorrectPassword"))
        ELSE ErrMsg("PdfInfoFailure", from_utf8_lossy(out.stderr))
    ELSE parse_pdf_info(from_utf8_lossy(out.stdout))

\* info::pdf_info, from the exit of pdfinfo on
pdf_info_output(pw, out) ==
    IF ~success(out) THEN
        IF contains(from_utf8_lossy(out.stderr), <<NOT_PDF>>) THEN Err("NotPdfFile")
        ELSE IF contains(from_utf8_lossy(out.stderr), <<INCORRECT_PASSWORD>>)
             THEN (IF is_none(pw) THEN Err("PdfEncrypted") ELSE Err("IncorrectPassword"))
        ELSE ErrMsg("PdfInfoFailure", from_utf8_lossy(out.stderr))
    ELSE parse_pdf_info(from_utf8_lossy(out.stdout))

\* The operations and the function each of them awaits per invocation.
RenderOps == {"render_all_pages", "render_pages", "render_single_page"}
BatchOps == {"render_all_pages", "render_pages", "text_pages"}
PageOps == {"render_pages", "render_single_page", "text_pages", "text_single_page"}
AllOps == RenderOps \cup {"text_all_pages", "text_all_pages_split", "text_pages",
                          "text_single_page", "pdf_info"}

invocation_output(o, pw, out) ==
    IF o \in RenderOps THEN render_page_output(pw, out)
    ELSE IF o \in {"text_pages", "text_single_page"} THEN page_text_output(pw, out)
    ELSE IF o \in {"text_all_pages", "text_all_pages_split"} THEN pages_text_output(pw, out)
    ELSE pdf_info_output(pw, out)

\* Mutant of replace: str::replacen(.., 1), only the first occurrence is replaced.
replace_first(s, from, to) == [k \in 1..Len(s) |-> IF k = find(s, from) THEN to ELSE s[k]]

\* str::replace(PAGE_END_CHARACTER, "\n")
replace(s, from, to) == [k \in 1..Len(s) |-> IF s[k] = from THEN to ELSE s[k]]

\* Mutant of split: str::split_terminator, which yields no empty last element.
RECURSIVE split_terminator(_, _)
split_terminator(s, c) ==
    IF s = <<>> THEN <<>>
    ELSE IF find(s, c) = 0 THEN <<s>>
    ELSE <<SubSeq(s, 1, find(s, c) - 1)>>
            \o split_terminator(SubSeq(s, find(s, c) + 1, Len(s)), c)

\* str::split(PAGE_END_CHARACTER) collected into a Vec
RECURSIVE split(_, _)
split(s, c) ==
    IF find(s, c) = 0 THEN <<s>>
    ELSE <<SubSeq(s, 1, find(s, c) - 1)>> \o split(SubSeq(s, find(s, c) + 1, Len(s)), c)

\* ------------------------------------------------------------- the inputs
Passwords == {None, Some([kind |-> "Owner", secret |-> <<"o">>]),
              Some([kind |-> "User", secret |-> <<"u">>])}

EncryptedValues == {<<"no">>, <<YES, " ", "(", "print", ":", YES, ")">>}
\* The Pages field: absent, not a number (a word, no text, a negative number, one
\* more than u32::MAX), or a page count, once written with a sign.
PagesValues ==
    {None, Some(<<"x">>), Some(<<>>), Some(<<"-", "1">>),
     Some(<<"4", "2", "9", "4", "9", "6", "7", "2", "9", "6">>), Some(<<"+", "1">>)}
    \cup {Some(to_string(n)) : n \in 0..MaxPages}

\* A PdfInfo with the given Encrypted field and Pages field (absent when None).
MkInfo(e, p) ==
    [key \in {K_Encrypted} \cup {k \in {K_Pages} : is_some(p)} |->
        IF key = K_Encrypted THEN e ELSE unwrap(p)]

\* The PdfInfo of an empty pdfinfo output, and the ones with an Encrypted field.
Infos == {<<>>} \cup {MkInfo(e, p) : e \in EncryptedValues, p \in PagesValues}

\* Page numbers a caller asks for: 0, the first page, the last page of the
\* largest document and the page beyond it.
PageNumbers == {0, 1, MaxPages, MaxPages + 1}
PageLists == UNION {[1..n -> PageNumbers] : n \in 0..MaxReq}

\* What a subprocess can leave behind: exit code (None: killed by a signal),
\* stderr and stdout.
FailureStderrs == {<<"Syntax Error">>, <<"Syntax Error", NOT_PDF>>,
                   <<"Command Line Error", INCORRECT_PASSWORD>>,
                   <<INCORRECT_PASSWORD, NOT_PDF>>}
FailureCodes == {Some(1), Some(PermissionExitCode), None}

\* Every text of at most MaxTextLen symbols a, newline and form feed.
Texts == UNION {[1..n -> {"a", NL, FF}] : n \in 0..MaxTextLen}

\* The stdout of a page that identifies the page.
PageStdouts(o, page) ==
    IF o \in RenderOps THEN {<<"img">> \o to_string(unwrap(page)), <<"truncated">>}
    ELSE {<<"text">> \o to_string(unwrap(page)) \o <<NL, FF>>,
          <<"text">> \o to_string(unwrap(page))}

Stdouts(o, page) ==
    IF o \in RenderOps THEN PageStdouts(o, page)
    ELSE IF o \in {"text_pages", "text_single_page"} THEN PageStdouts(o, page)
    ELSE IF o \in {"text_all_pages", "text_all_pages_split"}
         THEN {<<"text", "1", NL, FF, "text", "2", NL, FF>>,
               <<"text", "1", FF, FF, INVALID_BYTE>>}
    ELSE {<<>>,
          <<"Pages", ":", " ", " ", "2", NL, "Encrypted", ":", " ", "no", NL>>,
          <<"Title", ":", " ", "a", ":", "b", NL, "no colon", NL, "Pages", ":", "1", NL,
            "Encrypted", ":", " ", YES, " ", "(", "print", ":", YES, ")", NL,
            "Pages", ":", " ", "2">>}

\* The exits of a subprocess: a failure with one of the stderr texts, a success
\* with one of the stdouts (and maybe a warning on stderr), and for pdftotext a
\* success with any of the short texts.
Outputs(o, page) ==
    {[code |-> c, stderr |-> e, stdout |-> <<>>] : c \in FailureCodes, e \in FailureStderrs}
    \cup {[code |-> Some(0), stderr |-> e, stdout |-> t] :
            e \in {<<>>, <<"Syntax Warning", INCORRECT_PASSWORD>>}, t \in Stdouts(o, page)}
    \cup {[code |-> Some(0), stderr |-> <<>>, stdout |-> t] :
            t \in IF o \in {"text_all_pages", "text_all_pages_split", "text_pages",
                             "text_single_page"} THEN Texts ELSE {}}

\* The exits explored for each of several concurrent invocations: a success with
\* every stdout that identifies the page and one failure; the other exits are
\* explored with the same functions where a single invocation runs.
ConcurrentOutputs(o, page) ==
    {[code |-> Some(0), stderr |-> <<>>, stdout |-> t] : t \in PageStdouts(o, page)}
    \cup {[code |-> Some(1), stderr |-> <<"Command Line Error", INCORRECT_PASSWORD>>,
            stdout |-> <<>>]}

\* The exits explored for an invocation that is one of n.
ToolOutputs(o, page, n) == IF n <= 1 THEN Outputs(o, page) ELSE ConcurrentOutputs(o, page)

\* ---------------------------------------------------------------- futures
\* A tool invocation future that was created and not polled yet.
NewTask(page) ==
    [page |-> page, pc |-> "created", spawns |-> 0, writes |-> 0, waits |-> 0,
     output |-> None, result |-> None]

\* Mutant of try_collect: each yielded item is put in front of the Vec.
RECURSIVE try_collect_reversed(_, _, _)
try_collect_reversed(ts, nxt, items) ==
    IF nxt > Len(ts) THEN [next |-> nxt, items |-> items, ret |-> Some(Ok(items))]
    ELSE IF is_none(ts[nxt].result) THEN [next |-> nxt, items |-> items, ret |-> None]
    ELSE IF unwrap(ts[nxt].result).ok
         THEN try_collect_reversed(ts, nxt + 1, <<unwrap(ts[nxt].result).val>> \o items)
    ELSE [next |-> nxt, items |-> items, ret |-> ts[nxt].result]

\* Mutant of try_collect: a failed item is dropped and the rest is collected.
RECURSIVE try_collect_skip_errors(_, _, _)
try_collect_skip_errors(ts, nxt, items) ==
    IF nxt > Len(ts) THEN [next |-> nxt, items |-> items, ret |-> Some(Ok(items))]
    ELSE IF is_none(ts[nxt].result) THEN [next |-> nxt, items |-> items, ret |-> None]
    ELSE IF unwrap(ts[nxt].result).ok
         THEN try_collect_skip_errors(ts, nxt + 1, Append(items, unwrap(ts[nxt].result).val))
    ELSE try_collect_skip_errors(ts, nxt + 1, items)

\* Mutant of try_collect: the items are awaited like a join, an error is returned
\* once every future has completed.
RECURSIVE try_collect_join_all(_, _, _)
try_collect_join_all(ts, nxt, items) ==
    IF \E k \in nxt..Len(ts) : is_none(ts[k].result)
    THEN [next |-> nxt, items |-> items, ret |-> None]
    ELSE IF nxt > Len(ts) THEN [next |-> nxt, items |-> items, ret |-> Some(Ok(items))]
    ELSE IF unwrap(ts[nxt].result).ok
         THEN try_collect_join_all(ts, nxt + 1, Append(items, unwrap(ts[nxt].result).val))
    ELSE [next |-> nxt, items |-> items, ret |-> ts[nxt].result]

\* Mutant of try_collect: outputs are yielded in the order the futures complete
\* (FuturesUnordered), so the first failure in time is returned.
RECURSIVE try_collect_fail_fast(_, _, _)
try_collect_fail_fast(ts, nxt, items) ==
    LET failed == {k \in DOMAIN ts : is_some(ts[k].result) /\ ~unwrap(ts[k].result).ok}
    IN IF failed /= {}
       THEN [next |-> nxt, items |-> items,
             ret |-> ts[CHOOSE k \in failed : \A j \in failed : k <= j].result]
       ELSE IF nxt > Len(ts) THEN [next |-> nxt, items |-> items, ret |-> Some(Ok(items))]
       ELSE IF is_none(ts[nxt].result) THEN [next |-> nxt, items |-> items, ret |-> None]
       ELSE try_collect_fail_fast(ts, nxt + 1, Append(items, unwrap(ts[nxt].result).val))

\* Mutant of try_collect: a stream without futures never ends.
RECURSIVE try_collect_never_empty(_, _, _)
try_collect_never_empty(ts, nxt, items) ==
    IF ts = <<>> THEN [next |-> nxt, items |-> items, ret |-> None]
    ELSE IF nxt > Len(ts) THEN [next |-> nxt, items |-> items, ret |-> Some(Ok(items))]
    ELSE IF is_none(ts[nxt].result) THEN [next |-> nxt, items |-> items, ret |-> None]
    ELSE IF unwrap(ts[nxt].result).ok
         THEN try_collect_never_empty(ts, nxt + 1, Append(items, unwrap(ts[nxt].result).val))
    ELSE [next |-> nxt, items |-> items, ret |-> ts[nxt].result]

\* FuturesOrdered + try_collect: outputs are yielded in the order the futures
\* were pushed; an Ok item is pushed to the Vec, the first Err is returned.
RECURSIVE try_collect(_, _, _)
try_collect(ts, nxt, items) ==
    IF nxt > Len(ts) THEN [next |-> nxt, items |-> items, ret |-> Some(Ok(items))]
    ELSE IF is_none(ts[nxt].result) THEN [next |-> nxt, items |-> items, ret |-> None]
    ELSE IF unwrap(ts[nxt].result).ok
         THEN try_collect(ts, nxt + 1, Append(items, unwrap(ts[nxt].result).val))
    ELSE [next |-> nxt, items |-> items, ret |-> ts[nxt].result]

\* Mutant of single_result: text_all_pages keeps the form feeds.
single_result_keep_ff(o, r) ==
    IF o = "text_all_pages_split" /\ r.ok THEN Ok(split(r.val, FF)) ELSE r

\* What the public function does with the value of its awaited invocation.
single_result(o, r) ==
    IF o = "text_all_pages" /\ r.ok THEN Ok(replace(r.val, FF, NL))
    ELSE IF o = "text_all_pages_split" /\ r.ok THEN Ok(split(r.val, FF))
    ELSE r

\* The state of the call after its futures ts made a step.
Progress(ts) ==
    /\ tasks' = ts
    /\ IF op \in BatchOps
       THEN LET c == try_collect(ts, next_outgoing_index, collected)
            IN /\ next_outgoing_index' = c.next
               /\ collected' = c.items
               /\ ret' = c.ret
       ELSE /\ UNCHANGED <<next_outgoing_index, collected>>
            /\ ret' = IF is_some(ts[1].result)
                      THEN Some(single_result(op, unwrap(ts[1].result))) ELSE None
    /\ pc' = IF is_some(ret') THEN "done" ELSE "running"
    /\ UNCHANGED <<op, info, password, pages, arg, applied>>

\* The synchronous head of a public function: its checks, then its futures.
Begin(o, ps, pre) ==
    /\ op' = o
    /\ pages' = ps
    /\ UNCHANGED <<info, password, arg, applied>>
    /\ IF ~pre.ok
       THEN /\ ret' = Some(pre)
            /\ pc' = "done"
            /\ UNCHANGED <<tasks, next_outgoing_index, collected>>
       ELSE LET ts == [k \in 1..Len(pre.val) |-> NewTask(pre.val[k])]
                c == try_collect(ts, next_outgoing_index, collected)
            IN /\ tasks' = ts
               /\ next_outgoing_index' = c.next
               /\ collected' = c.items
               /\ ret' = IF o \in BatchOps THEN c.ret ELSE None
               /\ pc' = IF is_some(ret') THEN "done" ELSE "running"

\* --------------------------------------------------------------- actions
render_all_pages ==
    /\ pc = "idle"
    /\ Begin("render_all_pages", <<>>, render_all_pages_pre(info, password))

render_pages ==
    /\ pc = "idle"
    /\ \E ps \in PageLists : Begin("render_pages", ps, render_pages_pre(info, password, ps))

render_single_page ==
    /\ pc = "idle"
    /\ \E page \in PageNumbers :
        Begin("render_single_page", <<page>>, render_single_page_pre(info, password, page))

text_all_pages ==
    /\ pc = "idle"
    /\ Begin("text_all_pages", <<>>, text_all_pages_pre(info, password))

text_all_pages_split ==
    /\ pc = "idle"
    /\ Begin("text_all_pages_split", <<>>, text_all_pages_split_pre(info, password))

text_pages ==
    /\ pc = "idle"
    /\ \E ps \in PageLists : Begin("text_pages", ps, text_pages_pre(info, password, ps))

text_single_page ==
    /\ pc = "idle"
    /\ \E page \in PageNumbers :
        Begin("text_single_page", <<page>>, text_single_page_pre(info, password, page))

pdf_info ==
    /\ pc = "idle"
    /\ Begin("pdf_info", <<>>, pdf_info_pre)

\* Mutant of Spawn: an invocation that failed is spawned again.
Spawn_retry(k) ==
    /\ pc = "running"
    /\ \/ tasks[k].pc = "created"
       \/ tasks[k].pc = "done" /\ ~unwrap(tasks[k].result).ok
    /\ \/ Progress([tasks EXCEPT ![k].pc = "spawned", ![k].spawns = @ + 1,
                                 ![k].output = None, ![k].result = None])
       \/ Progress([tasks EXCEPT ![k].pc = "done", ![k].spawns = @ + 1,
                                 ![k].result = Some(Err("SpawnProcess"))])

\* Command::spawn of invocation k
Spawn(k) ==
    /\ pc = "running"
    /\ tasks[k].pc = "created"
    /\ \/ Progress([tasks EXCEPT ![k].pc = "spawned", ![k].spawns = @ + 1])
       \/ Progress([tasks EXCEPT ![k].pc = "done", ![k].spawns = @ + 1,
                                 ![k].result = Some(Err("SpawnProcess"))])

\* Mutant of WritePdf: the error of the write is mapped with the wrong variant.
WritePdf_as_wait(k) ==
    /\ pc = "running"
    /\ tasks[k].pc = "spawned"
    /\ \/ Progress([tasks EXCEPT ![k].pc = "written", ![k].writes = @ + 1])
       \/ Progress([tasks EXCEPT ![k].pc = "done", ![k].writes = @ + 1,
                                 ![k].result = Some(Err("WaitOutput"))])

\* stdin.write_all(data) of invocation k
WritePdf(k) ==
    /\ pc = "running"
    /\ tasks[k].pc = "spawned"
    /\ \/ Progress([tasks EXCEPT ![k].pc = "written", ![k].writes = @ + 1])
       \/ Progress([tasks EXCEPT ![k].pc = "done", ![k].writes = @ + 1,
                                 ![k].result = Some(Err("WritePdf"))])

\* Mutant of WaitOutput: the invocations of a batch collect their stdout in one
\* buffer, so an invocation reads what an earlier finished one left there too.
WaitOutput_shared(k) ==
    /\ pc = "running"
    /\ tasks[k].pc = "written"
    /\ \/ Progress([tasks EXCEPT ![k].pc = "done", ![k].waits = @ + 1,
                                 ![k].result = Some(Err("WaitOutput"))])
       \/ \E x \in ToolOutputs(op, tasks[k].page, Len(tasks)) :
            LET others == {j \in DOMAIN tasks : j /= k /\ is_some(tasks[j].output)}
                buffer == IF others = {} THEN <<>>
                          ELSE unwrap(tasks[CHOOSE j \in others : TRUE].output).stdout
            IN Progress([tasks EXCEPT
                   ![k].pc = "done", ![k].waits = @ + 1, ![k].output = Some(x),
                   ![k].result = Some(invocation_output(op, password,
                                          [x EXCEPT !.stdout = buffer \o x.stdout]))])

\* Mutant of WaitOutput: only the first invocation's subprocess is waited for.
WaitOutput_first_only(k) ==
    /\ pc = "running"
    /\ k = 1
    /\ tasks[k].pc = "written"
    /\ \/ Progress([tasks EXCEPT ![k].pc = "done", ![k].waits = @ + 1,
                                 ![k].result = Some(Err("WaitOutput"))])
       \/ \E x \in ToolOutputs(op, tasks[k].page, Len(tasks)) :
            Progress([tasks EXCEPT ![k].pc = "done", ![k].waits = @ + 1, ![k].output = Some(x),
                                   ![k].result = Some(invocation_output(op, password, x))])

\* child.wait_with_output() of invocation k and the code after it
WaitOutput(k) ==
    /\ pc = "running"
    /\ tasks[k].pc = "written"
    /\ \/ Progress([tasks EXCEPT ![k].pc = "done", ![k].waits = @ + 1,
                                 ![k].result = Some(Err("WaitOutput"))])
       \/ \E x \in ToolOutputs(op, tasks[k].page, Len(tasks)) :
            Progress([tasks EXCEPT ![k].pc = "done", ![k].waits = @ + 1, ![k].output = Some(x),
                                   ![k].result = Some(invocation_output(op, password, x))])

Init ==
    /\ op = "none"
    /\ info \in Infos
    /\ password \in Passwords
    /\ pages = <<>>
    /\ pc = "idle"
    /\ tasks = <<>>
    /\ next_outgoing_index = 1
    /\ collected = <<>>
    /\ ret = None
    /\ arg = <<>>
    /\ applied = <<>>

Next ==
    \/ render_all_pages
    \/ render_pages
    \/ render_single_page
    \/ text_all_pages
    \/ text_all_pages_split
    \/ text_pages
    \/ text_single_page
    \/ pdf_info
    \/ \E k \in DOMAIN tasks : Spawn(k)
    \/ \E k \in DOMAIN tasks : WritePdf(k)
    \/ \E k \in DOMAIN tasks : WaitOutput(k)

Spec == Init /\ [][Next]_vars

\* An invocation of the call makes its next step: the executor polls it, and the
\* subprocess it waits for takes its input and exits.
InvocationStep == \E k \in DOMAIN tasks : Spawn(k) \/ WritePdf(k) \/ WaitOutput(k)

\* The program when the invocations of a call are polled as long as one of them
\* can make a step, and every subprocess takes its input and exits.
FairSpec == Init /\ [][Next]_vars /\ WF_vars(InvocationStep)

\* ------------------------------------- the output parser and the accessors
\* The keys the accessors of PdfInfo look up.
InfoKeys ==
    {<<"Title">>, <<"Subject">>, <<"Keywords">>, <<"Creator">>, <<"Producer">>,
     <<"CreationDate">>, <<"ModDate">>, <<"Author">>, <<"Form">>, <<"Page", " ", "size">>,
     K_Encrypted, <<"Page", " ", "rot">>, <<"File", " ", "size">>, <<"PDF", " ", "version">>,
     <<"Custom", " ", "Metadata">>, <<"Metadata", " ", "Stream">>, <<"Tagged">>,
     <<"UserProperties">>, <<"Suspects">>, <<"JavaScript">>, <<"Optimized">>, K_Pages}

RECURSIVE concat(_)
concat(parts) == IF parts = <<>> THEN <<>> ELSE Head(parts) \o concat(Tail(parts))

\* The pieces a line of pdfinfo output is made of here: the key, a colon, a space
\* or "yes", at most MaxLineLen of them.
InfoLineParts(key) == UNION {[1..n -> {key, <<":">>, <<" ">>, <<YES>>}] : n \in 0..MaxLineLen}

\* The output of pdfinfo whose lines are ls.
InfoOutput(ls) ==
    [lines |-> ls, text |-> Head(ls) \o concat([k \in 1..(Len(ls) - 1) |-> <<NL>> \o ls[k + 1]])]

InitInfo ==
    /\ op = "none"
    /\ info = <<>>
    /\ password = None
    /\ pages = <<>>
    /\ pc = "idle"
    /\ tasks = <<>>
    /\ next_outgoing_index = 1
    /\ collected = <<>>
    /\ ret = None
    /\ \E key \in InfoKeys :
        \E parts \in InfoLineParts(key) :
            \* a line, alone or followed by a line that gives the key once more
            \E more \in {<<>>, <<key \o <<":", "no">>>>} :
                arg = InfoOutput(<<concat(parts)>> \o more)
    /\ applied = <<>>

\* parse_pdf_info(&value) on the decoded stdout of pdfinfo
apply_parse_pdf_info ==
    /\ DOMAIN applied = {}
    /\ applied' = [parse_pdf_info |-> parse_pdf_info(arg.text)]
    /\ UNCHANGED <<op, info, password, pages, pc, tasks, next_outgoing_index, collected,
                   ret, arg>>

\* Every text and yes/no accessor read on the parsed PdfInfo.
read_accessors ==
    /\ DOMAIN applied = {"parse_pdf_info"}
    /\ LET i == applied.parse_pdf_info.val
       IN applied' = [parse_pdf_info |-> applied.parse_pdf_info,
                      title |-> title(i), subject |-> subject(i), keywords |-> keywords(i),
                      creator |-> creator(i), producer |-> producer(i),
                      creation_date |-> creation_date(i), mod_date |-> mod_date(i),
                      author |-> author(i), form |-> form(i), page_size |-> page_size(i),
                      encryption_raw |-> encryption_raw(i), page_rot |-> page_rot(i),
                      file_size |-> file_size(i), pdf_version |-> pdf_version(i),
                      custom_metadata |-> custom_metadata(i),
                      metadata_stream |-> metadata_stream(i), tagged |-> tagged(i),
                      user_properties |-> user_properties(i), suspects |-> suspects(i),
                      javascript |-> javascript(i), optimized |-> optimized(i)]
    /\ UNCHANGED <<op, info, password, pages, pc, tasks, next_outgoing_index, collected,
                   ret, arg>>

NextInfo ==
    \/ apply_parse_pdf_info
    \/ read_accessors

SpecInfo == InitInfo /\ [][NextInfo]_vars

\* ------------------------------------------ the Encrypted field, read both ways
\* The options of an Encrypted field: a key, a colon, a value; or a word alone.
OptionKeys == {"print", "copy", "change", "addNotes", "algorithm"}
OptionTokens ==
    {<<k, ":", v>> : k \in OptionKeys, v \in {YES, "no", "AES-256"}} \cup {<<"x">>}

\* The values of the Encrypted field: "yes" or "no", alone or followed by at most
\* MaxOptions options in brackets, the closing bracket once left out.
EncryptedFields ==
    {head \o rest : head \in {<<YES>>, <<"no">>},
                    rest \in {<<>>, <<" ", "(">>}
                        \cup {<<" ", "(">> \o
                              concat([k \in 1..n |-> IF k = 1 THEN ts[k] ELSE <<" ">> \o ts[k]])
                              \o <<")">> :
                              n \in 0..MaxOptions, ts \in [1..MaxOptions -> OptionTokens]}}

InitEnc ==
    /\ op = "none"
    /\ info = <<>>
    /\ password = None
    /\ pages = <<>>
    /\ pc = "idle"
    /\ tasks = <<>>
    /\ next_outgoing_index = 1
    /\ collected = <<>>
    /\ ret = None
    /\ \/ arg = <<>>
       \/ \E e \in EncryptedFields : arg = [key \in {K_Encrypted} |-> e]
    /\ applied = <<>>

\* info.encrypted() and info.encryption() on the same PdfInfo
apply_encryption ==
    /\ DOMAIN applied = {}
    /\ applied' = [encrypted |-> encrypted(arg), encryption |-> encryption(arg)]
    /\ UNCHANGED <<op, info, password, pages, pc, tasks, next_outgoing_index, collected,
                   ret, arg>>

\* Every accessor read on the descriptor encryption() gave.
read_permissions ==
    /\ DOMAIN applied = {"encrypted", "encryption"}
    /\ is_some(applied.encryption)
    /\ unwrap(applied.encryption).ok
    /\ LET e == unwrap(applied.encryption).val
       IN applied' = applied @@
            [is_encrypted |-> is_encrypted(e), is_print_allowed |-> is_print_allowed(e),
             is_copy_allowed |-> is_copy_allowed(e), is_change_allowed |-> is_change_allowed(e),
             is_add_notes_allowed |-> is_add_notes_allowed(e), algorithm |-> algorithm(e)]
    /\ UNCHANGED <<op, info, password, pages, pc, tasks, next_outgoing_index, collected,
                   ret, arg>>

NextEnc ==
    \/ apply_encryption
    \/ read_permissions

SpecEnc == InitEnc /\ [][NextEnc]_vars

\* ------------------------------------------------------------ properties
\* The call has returned.
Returned == pc = "done" /\ is_some(ret)
\* The invocations for which Command::spawn was called.
Spawned == {k \in DOMAIN tasks : tasks[k].spawns > 0}
\* The info's Encrypted field starts with "yes" and the args carry no password.
EncryptedNoPassword ==
    /\ K_Encrypted \in DOMAIN info
    /\ info[K_Encrypted] /= <<>>
    /\ Head(info[K_Encrypted]) = YES
    /\ password = None
\* The info's Pages field parses to a page count.
PageCountKnown == K_Pages \in DOMAIN info /\ parse_u32(info[K_Pages]).ok
PageCount == parse_u32(info[K_Pages]).val
\* The positions of the request list whose page lies beyond page count n.
Offending(n) == {k \in DOMAIN pages : pages[k] > n}
FirstOffending(n) == CHOOSE k \in Offending(n) : \A j \in Offending(n) : k <= j
\* Invocation k exited unsuccessfully.
ExitedUnsuccessfully(k) == is_some(tasks[k].output) /\ unwrap(tasks[k].output).code /= Some(0)
StderrHas(k, message) ==
    \E j \in DOMAIN unwrap(tasks[k].output).stderr : unwrap(tasks[k].output).stderr[j] = message

\* C1: in render_single_page, render_pages, text_single_page and text_pages, when
\* the encryption check does not block and the page count parses to N, a request
\* with a page p > N returns PageOutOfBounds(p, N) for the first such p of the list.
C1_PageOutOfBounds ==
    (op \in PageOps /\ ~EncryptedNoPassword /\ PageCountKnown /\ Offending(PageCount) /= {})
        => /\ Returned
           /\ unwrap(ret) = PageOutOfBounds(pages[FirstOffending(PageCount)], PageCount)

\* A list whose second page is the first one out of bounds, behind a valid page.
C1_Witness ==
    /\ op = "render_pages" /\ Returned /\ PageCountKnown /\ Len(pages) = 2
    /\ pages[1] <= PageCount /\ pages[2] > PageCount
    /\ unwrap(ret).kind = "PageOutOfBounds" /\ unwrap(ret).a = pages[2]

\* C2: in render_pages and text_pages every page is validated before anything is
\* spawned: with a page beyond the page count in the list, no invocation is ever
\* created or spawned, not even for a valid page earlier in the list.
C2_ValidateBeforeSpawn ==
    (op \in {"render_pages", "text_pages"} /\ PageCountKnown /\ Offending(PageCount) /= {})
        => tasks = <<>> /\ Spawned = {}

\* text_pages returned for a list with a valid page before the offending one.
C2_Witness ==
    /\ op = "text_pages" /\ Returned /\ ~EncryptedNoPassword /\ PageCountKnown
    /\ Len(pages) = 2 /\ pages[1] \in 1..PageCount /\ pages[2] > PageCount
    /\ Spawned = {}

\* C3: each of the seven operations that take a PdfInfo returns PdfEncrypted and
\* spawns nothing when the info says encrypted and there is no password.
C3_EncryptedBlocks ==
    (op \in AllOps \ {"pdf_info"} /\ EncryptedNoPassword)
        => /\ Returned
           /\ unwrap(ret) = Err("PdfEncrypted")
           /\ tasks = <<>> /\ Spawned = {}

\* text_all_pages_split refused an encrypted info whose page count is fine.
C3_Witness ==
    /\ op = "text_all_pages_split" /\ EncryptedNoPassword /\ PageCountKnown
    /\ Returned /\ unwrap(ret).kind = "PdfEncrypted"

\* C4 as stated: pdf_info returns the encrypted error before any subprocess is
\* dispatched.
C4_Original ==
    (op = "pdf_info" /\ Returned /\ unwrap(ret) = Err("PdfEncrypted")) => Spawned = {}

\* C4 amended: pdf_info makes no check before dispatch; it returns PdfEncrypted
\* exactly when no password was supplied and the pdfinfo subprocess it spawned
\* exited unsuccessfully with "Incorrect password" and without "May not be a PDF
\* file" on stderr.
C4_EncryptedAfterDispatch ==
    (op = "pdf_info" /\ Returned)
        => /\ Spawned = {1}
           /\ (unwrap(ret) = Err("PdfEncrypted")
                 <=> /\ password = None
                     /\ ExitedUnsuccessfully(1)
                     /\ StderrHas(1, INCORRECT_PASSWORD)
                     /\ ~StderrHas(1, NOT_PDF))

\* pdf_info without a password got "Incorrect password" from the subprocess.
C4_Witness ==
    /\ op = "pdf_info" /\ Returned /\ password = None /\ Spawned = {1}
    /\ ExitedUnsuccessfully(1) /\ StderrHas(1, INCORRECT_PASSWORD)
    /\ unwrap(ret).kind = "PdfEncrypted"

\* C5: an invocation of any tool that exits unsuccessfully with "Incorrect
\* password" and without "May not be a PDF file" on stderr yields PdfEncrypted when
\* the args carry no password and IncorrectPassword when they carry one.
C5_PasswordErrors ==
    \A k \in DOMAIN tasks :
        (ExitedUnsuccessfully(k) /\ StderrHas(k, INCORRECT_PASSWORD) /\ ~StderrHas(k, NOT_PDF))
            => /\ password = None => unwrap(tasks[k].result) = Err("PdfEncrypted")
               /\ password /= None => unwrap(tasks[k].result) = Err("IncorrectPassword")

\* A page_text invocation with an owner password was told the password is wrong.
C5_Witness ==
    /\ op = "text_single_page" /\ password /= None /\ unwrap(password).kind = "Owner"
    /\ Len(tasks) = 1 /\ ExitedUnsuccessfully(1) /\ StderrHas(1, INCORRECT_PASSWORD) /\ ~StderrHas(1, NOT_PDF)
    /\ unwrap(tasks[1].result).kind = "IncorrectPassword"

\* C6: an unsuccessful exit with "May not be a PDF file" on stderr is NotPdfFile,
\* whatever the exit code, the password and the rest of stderr.
C6_NotPdfFirst ==
    \A k \in DOMAIN tasks :
        (ExitedUnsuccessfully(k) /\ StderrHas(k, NOT_PDF))
            => unwrap(tasks[k].result) = Err("NotPdfFile")

\* pdftotext exited with code 3 and both messages while a password was supplied.
C6_Witness ==
    /\ op = "text_all_pages" /\ password /= None
    /\ Len(tasks) = 1 /\ ExitedUnsuccessfully(1) /\ unwrap(tasks[1].output).code = Some(PermissionExitCode)
    /\ StderrHas(1, NOT_PDF) /\ StderrHas(1, INCORRECT_PASSWORD)
    /\ Returned /\ unwrap(ret).kind = "NotPdfFile"

\* C7: the operations that need the page count check encryption first, then the
\* page count, then the bounds: PageCountUnknown and PageOutOfBounds are returned
\* only when the encryption check passed, PageOutOfBounds only for a known count,
\* and an encrypted info without a password gives PdfEncrypted for an out-of-range
\* page or an unusable page count.
C7_CheckOrder ==
    (op \in PageOps \cup {"render_all_pages"} /\ Returned)
        => /\ unwrap(ret).kind \in {"PageCountUnknown", "PageOutOfBounds"} => ~EncryptedNoPassword
           /\ unwrap(ret).kind = "PageOutOfBounds" => PageCountKnown
           /\ (EncryptedNoPassword /\ (~PageCountKnown \/ Offending(PageCount) /= {}))
                 => unwrap(ret).kind = "PdfEncrypted"
           /\ (~EncryptedNoPassword /\ ~PageCountKnown) => unwrap(ret).kind = "PageCountUnknown"

\* render_single_page of an out-of-range page of an encrypted document.
C7_Witness ==
    /\ op = "render_single_page" /\ EncryptedNoPassword /\ PageCountKnown
    /\ pages[1] > PageCount /\ Returned /\ unwrap(ret).kind = "PdfEncrypted"

\* The value an invocation hands back for what its subprocess wrote to stdout: the
\* decoded image bytes, or the text without its final form feed.
ValueOfStdout(k) ==
    LET stdout == unwrap(tasks[k].output).stdout
    IN IF op \in RenderOps THEN SubSeq(stdout, 2, Len(stdout))
       ELSE IF stdout /= <<>> /\ stdout[Len(stdout)] = FF THEN SubSeq(stdout, 1, Len(stdout) - 1)
       ELSE stdout

\* C8: a successful render_pages or text_pages returns one element per requested
\* page, the i-th being what the subprocess of the i-th request produced, whatever
\* the order in which the subprocesses finished.
C8_RequestOrder ==
    (op \in {"render_pages", "text_pages"} /\ Returned /\ unwrap(ret).ok)
        => /\ Len(unwrap(ret).val) = Len(pages)
           /\ Len(tasks) = Len(pages)
           /\ \A k \in DOMAIN pages :
                /\ tasks[k].page = Some(pages[k])
                /\ is_some(tasks[k].output)
                /\ unwrap(ret).val[k] = ValueOfStdout(k)

\* A non-ascending request succeeded.
C8_Witness ==
    /\ op = "text_pages" /\ Returned /\ unwrap(ret).ok
    /\ pages = <<2, 1>>
    /\ unwrap(ret).val[1] /= unwrap(ret).val[2]

\* C9: a successful render_all_pages of a document of N pages returns N images,
\* the i-th being the render of page i.
C9_AllPagesAscending ==
    (op = "render_all_pages" /\ Returned /\ unwrap(ret).ok)
        => /\ PageCountKnown
           /\ Len(unwrap(ret).val) = PageCount
           /\ \A k \in 1..PageCount :
                /\ tasks[k].page = Some(k)
                /\ unwrap(ret).val[k] = ValueOfStdout(k)
                /\ unwrap(ret).val[k] = to_string(k)

\* All pages of a document of at least two pages were rendered.
C9_Witness ==
    /\ op = "render_all_pages" /\ Returned /\ unwrap(ret).ok
    /\ PageCountKnown /\ PageCount >= 2

\* C10: a batch is all-or-nothing: it returns Ok only with the value of every
\* invocation, and never Ok once an invocation has failed.
C10_AllOrNothing ==
    (op \in BatchOps /\ Returned)
        => /\ unwrap(ret).ok =>
                /\ Len(unwrap(ret).val) = Len(tasks)
                /\ \A k \in DOMAIN tasks :
                     is_some(tasks[k].result) /\ unwrap(tasks[k].result).ok
           /\ (\E k \in DOMAIN tasks : is_some(tasks[k].result) /\ ~unwrap(tasks[k].result).ok)
                 => ~unwrap(ret).ok

\* A batch whose first page succeeded and whose second page failed returned the
\* error.
C10_Witness ==
    /\ op = "render_pages" /\ Returned /\ Len(tasks) = 2
    /\ is_some(tasks[1].result) /\ unwrap(tasks[1].result).ok
    /\ is_some(tasks[2].result) /\ ~unwrap(tasks[2].result).ok
    /\ ~unwrap(ret).ok

\* The invocations that completed with an error, and those that completed with a value.
Failed == {k \in DOMAIN tasks : is_some(tasks[k].result) /\ ~unwrap(tasks[k].result).ok}
Succeeded == {k \in DOMAIN tasks : is_some(tasks[k].result) /\ unwrap(tasks[k].result).ok}
\* The invocations whose subprocess was spawned and has not been waited for to the end.
StillRunning == {k \in DOMAIN tasks : tasks[k].pc \in {"spawned", "written"}}

\* C11 as stated: in a batch operation, as soon as any page's invocation has
\* failed the batch has returned that page's error, whatever the other pages do.
C11_Original ==
    \A k \in Failed : op \in BatchOps => Returned /\ ret = tasks[k].result

\* C11: in a batch operation, once a page has failed and every page before it in
\* request order has completed successfully, the batch has returned that page's
\* error, whatever the pages after it do (they are not waited for).
C11_AbortsLaterPages ==
    \A k \in Failed :
        (op \in BatchOps /\ \A j \in 1..(k - 1) : j \in Succeeded)
            => Returned /\ ret = tasks[k].result

\* The batch returned the first page's error while the second page's subprocess
\* was still running.
C11_Witness ==
    /\ op \in BatchOps /\ Returned /\ Len(tasks) = 2
    /\ 1 \in Failed /\ 2 \in StillRunning
    /\ ret = tasks[1].result

\* C12: when a batch returns an error although invocations were dispatched, the
\* error is that of the failing page that comes first in request order, and
\* every page before it in request order has completed successfully.
C12_FirstInRequestOrder ==
    (op \in BatchOps /\ Returned /\ Failed /= {})
        => LET k == CHOOSE f \in Failed : \A j \in Failed : f <= j
           IN /\ ret = tasks[k].result
              /\ \A j \in 1..(k - 1) : j \in Succeeded

\* Both pages failed with different errors, the second one first in time (the
\* batch returns with the first page's failure), and the first page's error is
\* the one returned.
C12_Witness ==
    /\ op \in BatchOps /\ Returned /\ Len(tasks) = 2
    /\ 1 \in Failed /\ 2 \in Failed
    /\ tasks[1].result /= tasks[2].result
    /\ ret = tasks[1].result

\* The number of entries of the batch's request list.
Requested == IF op = "render_all_pages" THEN PageCount ELSE Len(pages)

\* C13: a batch creates at most one invocation per entry of the request list and
\* spawns at most one subprocess per invocation, a failed invocation included;
\* when the batch returns Ok, exactly one subprocess was spawned per entry.
C13_NoRetry ==
    (op \in BatchOps /\ tasks /= <<>>)
        => /\ Len(tasks) = Requested
           /\ \A k \in DOMAIN tasks : tasks[k].spawns <= 1
           /\ \A k \in Failed : tasks[k].pc = "done"
           /\ (Returned /\ unwrap(ret).ok) => \A k \in DOMAIN tasks : tasks[k].spawns = 1

\* A batch of two entries returned Ok after one spawn each.
C13_Witness ==
    /\ op = "render_pages" /\ Returned /\ Len(pages) = 2
    /\ unwrap(ret).ok
    /\ \A k \in DOMAIN tasks : tasks[k].spawns = 1

\* The result of running the invocations of the batch one after another, each with
\* the outcome its own subprocess had: the first error met, or every value.
RECURSIVE one_after_another(_, _)
one_after_another(k, values) ==
    IF k > Len(tasks) THEN Some(Ok(values))
    ELSE IF k \in Failed THEN tasks[k].result
    ELSE IF k \in Succeeded
         THEN one_after_another(k + 1, Append(values, unwrap(tasks[k].result).val))
    ELSE None

\* C14: in a batch, the result of each invocation whose subprocess exited is the
\* result its function gives for the args and that subprocess's own exit status,
\* stdout and stderr, whatever the other invocations did in between; and when the
\* batch returns, under whatever interleaving, its result is the result of running
\* the same invocations one after another.
C14_NoSharedState ==
    (op \in BatchOps /\ tasks /= <<>>)
        => /\ \A k \in DOMAIN tasks :
                is_some(tasks[k].output)
                    => tasks[k].result
                        = Some(invocation_output(op, password, unwrap(tasks[k].output)))
           /\ Returned => ret = one_after_another(1, <<>>)

\* A batch returned Ok for two different pages whose subprocesses both exited
\* with their own stdout.
C14_Witness ==
    /\ op \in BatchOps /\ Returned /\ unwrap(ret).ok /\ Len(tasks) = 2
    /\ tasks[1].page /= tasks[2].page
    /\ \A k \in DOMAIN tasks : is_some(tasks[k].output)
    /\ unwrap(tasks[1].output).stdout /= unwrap(tasks[2].output).stdout

\* ------------------------------------------------ the command-line flags
\* i32::to_string
i32_to_string(n) == IF n < 0 THEN <<"-">> \o to_string(0 - n) ELSE to_string(n)

\* The push_arg of each option: the Vec with the option's flags pushed.
Resolution_push_arg(res, args) ==
    args \o <<<<"-rx">>, to_string(res.x), <<"-ry">>, to_string(res.y)>>
ScaleTo_push_arg(scale_to, args) ==
    args \o <<<<"-scale-to-x">>, i32_to_string(scale_to.x),
              <<"-scale-to-y">>, i32_to_string(scale_to.y)>>
RenderArea_push_arg(render_area, args) ==
    IF render_area = "MediaBox" THEN args ELSE args \o <<<<"-cropbox">>>>
RenderColor_push_arg(render_color, args) ==
    IF render_color = "Color" THEN args
    ELSE IF render_color = "Monochrome" THEN args \o <<<<"-mono">>>>
    ELSE args \o <<<<"-gray">>>>
PageColor_push_arg(page_color, args) ==
    IF page_color = "White" THEN args ELSE args \o <<<<"-transp">>>>
Password_push_arg(pw, args) ==
    IF pw.kind = "Owner" THEN args \o <<<<"-opw">>, pw.secret>>
    ELSE args \o <<<<"-upw">>, pw.secret>>
Crop_push_arg(crop, args) ==
    args \o <<<<"-x">>, to_string(crop.x), <<"-y">>, to_string(crop.y),
              <<"-W">>, to_string(crop.width), <<"-H">>, to_string(crop.height)>>
Antialias_push_arg(antialias, args) ==
    args \o <<<<"-anti">>,
              <<CASE antialias = "Default" -> "default" [] antialias = "None" -> "none"
                  [] antialias = "Gray" -> "gray" [] antialias = "Subpixel" -> "subpixel"
                  [] antialias = "Fast" -> "fast" [] antialias = "Good" -> "good"
                  [] antialias = "Best" -> "best">>>>
OutputFormat_push_arg(format, args) ==
    args \o <<<<CASE format = "Png" -> "-png" [] format = "Jpeg" -> "-jpeg"
                  [] format = "Tiff" -> "-tiff">>>>

\* Mutant of build_args: the scale target is pushed before the resolution.
build_args_scale_first(a) ==
    LET a1 == IF is_some(a.scale_to) THEN ScaleTo_push_arg(unwrap(a.scale_to), <<>>) ELSE <<>>
        a2 == IF is_some(a.resolution) THEN Resolution_push_arg(unwrap(a.resolution), a1) ELSE a1
        a3 == IF is_some(a.render_area) THEN RenderArea_push_arg(unwrap(a.render_area), a2) ELSE a2
        a4 == IF is_some(a.render_color)
              THEN RenderColor_push_arg(unwrap(a.render_color), a3) ELSE a3
        a5 == IF is_some(a.page_color) THEN PageColor_push_arg(unwrap(a.page_color), a4) ELSE a4
    IN IF is_some(a.password) THEN Password_push_arg(unwrap(a.password), a5) ELSE a5

\* RenderArgs::build_args
build_args(a) ==
    LET a1 == IF is_some(a.resolution) THEN Resolution_push_arg(unwrap(a.resolution), <<>>)
              ELSE <<>>
        a2 == IF is_some(a.scale_to) THEN ScaleTo_push_arg(unwrap(a.scale_to), a1) ELSE a1
        a3 == IF is_some(a.render_area) THEN RenderArea_push_arg(unwrap(a.render_area), a2) ELSE a2
        a4 == IF is_some(a.render_color)
              THEN RenderColor_push_arg(unwrap(a.render_color), a3) ELSE a3
        a5 == IF is_some(a.page_color) THEN PageColor_push_arg(unwrap(a.page_color), a4) ELSE a4
    IN IF is_some(a.password) THEN Password_push_arg(unwrap(a.password), a5) ELSE a5

\* The arguments render_page hands to Command::new("pdftocairo").
render_page_args(format, page, a) ==
    <<<<"-">>, <<"-">>, <<"-singlefile">>, <<"-f">>, to_string(page), <<"-l">>, to_string(page)>>
        \o OutputFormat_push_arg(format, build_args(a))

\* The option values a caller configures: Resolution::x(72), ScaleTo::y(100), each
\* variant of the enums, Crop::new(1, 2, 3, 4).
Resolutions == {None, Some([x |-> 72, y |-> 150])}
ScaleTos == {None, Some([x |-> 0 - 1, y |-> 100])}
RenderAreas == {None, Some("MediaBox"), Some("CropBox")}
RenderColors == {None, Some("Color"), Some("Monochrome"), Some("Grayscale")}
PageColors == {None, Some("White"), Some("Transparent")}
Crops == {None, Some([x |-> 1, y |-> 2, width |-> 3, height |-> 4])}
Antialiases == {None, Some("Default"), Some("None"), Some("Gray"), Some("Subpixel"),
                Some("Fast"), Some("Good"), Some("Best")}
OutputFormats == {"Png", "Jpeg", "Tiff"}

InitArgs ==
    /\ op = "none"
    /\ info = <<>>
    /\ password = None
    /\ pages = <<>>
    /\ pc = "idle"
    /\ tasks = <<>>
    /\ next_outgoing_index = 1
    /\ collected = <<>>
    /\ ret = None
    /\ \E res \in Resolutions, scale_to \in ScaleTos, render_area \in RenderAreas,
          render_color \in RenderColors, page_color \in PageColors, pw \in Passwords,
          crop \in Crops, antialias \in Antialiases, format \in OutputFormats :
            \* the settings a caller has made; RenderArgs holds the first six
            arg = [args |-> [resolution |-> res, scale_to |-> scale_to,
                             render_area |-> render_area, render_color |-> render_color,
                             page_color |-> page_color, password |-> pw],
                   crop |-> crop, antialias |-> antialias, format |-> format]
    /\ applied = <<>>

\* args.build_args()
apply_build_args ==
    /\ "build_args" \notin DOMAIN applied
    /\ applied' = applied @@ [build_args |-> build_args(arg.args)]
    /\ UNCHANGED <<op, info, password, pages, pc, tasks, next_outgoing_index, collected,
                   ret, arg>>

\* The argument list of the pdftocairo command render_page builds for page 1.
apply_render_page_args ==
    /\ "render_page_args" \notin DOMAIN applied
    /\ applied' = applied @@ [render_page_args |-> render_page_args(arg.format, 1, arg.args)]
    /\ UNCHANGED <<op, info, password, pages, pc, tasks, next_outgoing_index, collected,
                   ret, arg>>

NextArgs ==
    \/ apply_build_args
    \/ apply_render_page_args

SpecArgs == InitArgs /\ [][NextArgs]_vars

\* ------------------------------------- the text of one document, both ways
\* A document is the list of the texts of its pages; no page text has a form feed.
PageTexts == {t \in Texts : \A k \in DOMAIN t : t[k] /= FF}

\* What pdftotext writes for the whole document, and for "-f page -l page": each
\* page's text, ended by a form feed.
pdftotext_all(doc) == concat([p \in DOMAIN doc |-> doc[p] \o <<FF>>])
pdftotext_page(doc, page) == doc[page] \o <<FF>>

\* The exit of a pdftotext run that wrote stdout and succeeded.
wrote(stdout) == [code |-> Some(0), stderr |-> <<>>, stdout |-> stdout]

InitDoc ==
    /\ op = "none"
    /\ info = <<>>
    /\ password = None
    /\ pages = <<>>
    /\ pc = "idle"
    /\ tasks = <<>>
    /\ next_outgoing_index = 1
    /\ collected = <<>>
    /\ ret = None
    /\ \E n \in 0..MaxPages : arg \in [1..n -> PageTexts]
    /\ applied = <<>>

\* text_all_pages on the document
doc_text_all_pages ==
    /\ "text_all_pages" \notin DOMAIN applied
    /\ applied' = applied @@ [text_all_pages |->
            single_result("text_all_pages", pages_text_output(None, wrote(pdftotext_all(arg))))]
    /\ UNCHANGED <<op, info, password, pages, pc, tasks, next_outgoing_index, collected,
                   ret, arg>>

\* text_pages on the document, for the pages 1..N
doc_text_pages ==
    /\ "text_pages" \notin DOMAIN applied
    /\ LET ts == [p \in DOMAIN arg |->
                    [NewTask(Some(p)) EXCEPT
                        !.pc = "done", !.spawns = 1, !.writes = 1, !.waits = 1,
                        !.output = Some(wrote(pdftotext_page(arg, p))),
                        !.result = Some(page_text_output(None, wrote(pdftotext_page(arg, p))))]]
       IN applied' = applied @@ [text_pages |-> unwrap(try_collect(ts, 1, <<>>).ret)]
    /\ UNCHANGED <<op, info, password, pages, pc, tasks, next_outgoing_index, collected,
                   ret, arg>>

NextDoc ==
    \/ doc_text_all_pages
    \/ doc_text_pages

SpecDoc == InitDoc /\ [][NextDoc]_vars

\* --------------------------------------- one output of pdftotext, both ways
InitText ==
    /\ op = "none"
    /\ info = <<>>
    /\ password = None
    /\ pages = <<>>
    /\ pc = "idle"
    /\ tasks = <<>>
    /\ next_outgoing_index = 1
    /\ collected = <<>>
    /\ ret = None
    /\ arg \in Texts
    /\ applied = <<>>

\* text_all_pages when pdftotext wrote arg
apply_text_all_pages ==
    /\ "text_all_pages" \notin DOMAIN applied
    /\ applied' = applied @@ [text_all_pages |->
            single_result("text_all_pages", pages_text_output(None, wrote(arg)))]
    /\ UNCHANGED <<op, info, password, pages, pc, tasks, next_outgoing_index, collected,
                   ret, arg>>

\* text_all_pages_split when pdftotext wrote arg
apply_text_all_pages_split ==
    /\ "text_all_pages_split" \notin DOMAIN applied
    /\ applied' = applied @@ [text_all_pages_split |->
            single_result("text_all_pages_split", pages_text_output(None, wrote(arg)))]
    /\ UNCHANGED <<op, info, password, pages, pc, tasks, next_outgoing_index, collected,
                   ret, arg>>

NextText ==
    \/ apply_text_all_pages
    \/ apply_text_all_pages_split

SpecText == InitText /\ [][NextText]_vars

\* ----------------------------------------------- properties of the parser
\* The PdfInfo the parser made of the output, and whether the accessors were read.
Parsed == "parse_pdf_info" \in DOMAIN applied
ParsedInfo == applied.parse_pdf_info.val
AccessorsRead == "title" \in DOMAIN applied
\* A line's first colon, the text before it, and the text after it from its first
\* symbol that is not whitespace on.
HasColon(l) == \E c \in DOMAIN l : l[c] = ":"
FirstColon(l) == CHOOSE c \in DOMAIN l : l[c] = ":" /\ \A j \in 1..(c - 1) : l[j] /= ":"
KeyOf(l) == SubSeq(l, 1, FirstColon(l) - 1)
ValueOf(l) ==
    LET from == CHOOSE f \in (FirstColon(l) + 1)..(Len(l) + 1) :
                    /\ \A j \in (FirstColon(l) + 1)..(f - 1) : l[j] \in {" ", "\t"}
                    /\ f <= Len(l) => l[f] \notin {" ", "\t"}
    IN SubSeq(l, from, Len(l))
\* The lines of the output that have a colon, and those that are the last of their key.
ColonLines == {n \in DOMAIN arg.lines : HasColon(arg.lines[n])}
LastOfKey == {n \in ColonLines :
                \A m \in ColonLines : KeyOf(arg.lines[m]) = KeyOf(arg.lines[n]) => m <= n}
\* The key each accessor is documented to read.
TextAccessors ==
    [title |-> <<"Title">>, subject |-> <<"Subject">>, keywords |-> <<"Keywords">>,
     creator |-> <<"Creator">>, producer |-> <<"Producer">>,
     creation_date |-> <<"CreationDate">>, mod_date |-> <<"ModDate">>,
     author |-> <<"Author">>, form |-> <<"Form">>, page_size |-> <<"Page", " ", "size">>,
     encryption_raw |-> <<"Encrypted">>, page_rot |-> <<"Page", " ", "rot">>,
     file_size |-> <<"File", " ", "size">>, pdf_version |-> <<"PDF", " ", "version">>]
BoolAccessors ==
    [custom_metadata |-> <<"Custom", " ", "Metadata">>,
     metadata_stream |-> <<"Metadata", " ", "Stream">>, tagged |-> <<"Tagged">>,
     user_properties |-> <<"UserProperties">>, suspects |-> <<"Suspects">>,
     javascript |-> <<"JavaScript">>, optimized |-> <<"Optimized">>]
\* No entry without a line with a colon, and the text accessors hand out the
\* stored value of their key.
EntriesFromColonLines ==
    \A key \in DOMAIN ParsedInfo : \E n \in ColonLines : KeyOf(arg.lines[n]) = key
TextAccessorsReturnStored ==
    AccessorsRead =>
        \A name \in DOMAIN TextAccessors :
            applied[name] = IF TextAccessors[name] \in DOMAIN ParsedInfo
                            THEN Some(ParsedInfo[TextAccessors[name]]) ELSE None

\* C15 as stated: every line with a colon has an entry with the text before its
\* first colon as key and the text after it, leading whitespace removed, as value;
\* there is no other entry; each text accessor returns the stored value or None.
C15_Original ==
    Parsed =>
        /\ \A n \in ColonLines :
              /\ KeyOf(arg.lines[n]) \in DOMAIN ParsedInfo
              /\ ParsedInfo[KeyOf(arg.lines[n])] = ValueOf(arg.lines[n])
        /\ EntriesFromColonLines
        /\ TextAccessorsReturnStored

\* C15: every line with a colon that is the last line of its key has an entry with
\* the text before its first colon as key and the text after it, leading whitespace
\* removed, as value (an earlier line of the same key is overwritten); there is no
\* other entry; each text accessor returns the stored value of its key or None.
C15_ParsePdfInfo ==
    Parsed =>
        /\ \A n \in ColonLines : KeyOf(arg.lines[n]) \in DOMAIN ParsedInfo
        /\ \A n \in LastOfKey : ParsedInfo[KeyOf(arg.lines[n])] = ValueOf(arg.lines[n])
        /\ EntriesFromColonLines
        /\ TextAccessorsReturnStored

\* Two lines give Title, the first with a value behind spaces; title() returns
\* the value of the second.
C15_Witness ==
    /\ AccessorsRead /\ Len(arg.lines) = 2
    /\ arg.lines[1] = <<"Title", ":", " ", YES>>
    /\ KeyOf(arg.lines[2]) = <<"Title">>
    /\ applied.title = Some(ValueOf(arg.lines[2]))
    /\ applied.title /= Some(<<YES>>)
    /\ applied.subject = None

\* C16: each yes/no accessor returns None when its key has no entry, Some(true)
\* when the stored value is exactly "yes" and Some(false) for any other value.
C16_BoolAccessors ==
    AccessorsRead =>
        \A name \in DOMAIN BoolAccessors :
            applied[name] = IF BoolAccessors[name] \notin DOMAIN ParsedInfo THEN None
                            ELSE IF ParsedInfo[BoolAccessors[name]] = <<YES>> THEN Some(TRUE)
                            ELSE Some(FALSE)

\* javascript() is Some(false) for a stored value that begins with "yes" and goes
\* on, while tagged() finds no entry.
C16_Witness ==
    /\ AccessorsRead
    /\ <<"JavaScript">> \in DOMAIN ParsedInfo
    /\ Len(ParsedInfo[<<"JavaScript">>]) > 1
    /\ Head(ParsedInfo[<<"JavaScript">>]) = YES
    /\ applied.javascript = Some(FALSE)
    /\ applied.tagged = None

\* ------------------------------------------- properties of the page count
\* The Pages text is an unsigned 32-bit integer as str::parse::<u32> reads it: an
\* optional "+", then one or more decimal digits whose value is at most u32::MAX.
Unsigned(s) == IF s /= <<>> /\ s[1] = "+" THEN SubSeq(s, 2, Len(s)) ELSE s
Significant(d) ==
    LET zeros == CHOOSE z \in 0..Len(d) :
                    /\ \A j \in 1..z : d[j] = "0"
                    /\ z < Len(d) => d[z + 1] /= "0"
    IN IF zeros = Len(d) THEN <<"0">> ELSE SubSeq(d, zeros + 1, Len(d))
AtMostU32Max(d) ==
    \/ Len(d) < 10
    \/ /\ Len(d) = 10
       /\ \/ d = U32MaxDigits
          \/ \E k \in 1..10 : /\ \A j \in 1..(k - 1) : d[j] = U32MaxDigits[j]
                              /\ DigitVal(d[k]) < DigitVal(U32MaxDigits[k])
ValidU32(s) ==
    /\ Unsigned(s) /= <<>>
    /\ \A k \in DOMAIN Unsigned(s) : IsDigit(Unsigned(s)[k])
    /\ AtMostU32Max(Significant(Unsigned(s)))
\* pages() of the info: None without a Pages field, the count the digits spell
\* when the field is a valid unsigned 32-bit integer, a parse error otherwise.
PagesAsDocumented ==
    IF K_Pages \notin DOMAIN info THEN info_pages(info) = None
    ELSE IF ValidU32(info[K_Pages])
         THEN /\ is_some(info_pages(info)) /\ unwrap(info_pages(info)).ok
              /\ to_string(unwrap(info_pages(info)).val) = Significant(Unsigned(info[K_Pages]))
    ELSE is_some(info_pages(info)) /\ ~unwrap(info_pages(info)).ok
NoPageCount == K_Pages \notin DOMAIN info \/ ~ValidU32(info[K_Pages])
NeedPageCount == {"render_all_pages", "render_pages", "render_single_page",
                  "text_pages", "text_single_page"}

\* C17 as stated: pages() is as documented, and each operation that needs the page
\* count returns PageCountUnknown without spawning when the Pages field is absent
\* or does not parse.
C17_Original ==
    /\ PagesAsDocumented
    /\ (op \in NeedPageCount /\ NoPageCount)
         => /\ Returned /\ unwrap(ret) = Err("PageCountUnknown")
            /\ tasks = <<>> /\ Spawned = {}

\* C17: pages() is as documented, and each operation that needs the page count
\* returns PageCountUnknown without spawning when the Pages field is absent or does
\* not parse, unless the encryption check, which runs first, returns PdfEncrypted.
C17_PageCountUnknown ==
    /\ PagesAsDocumented
    /\ (op \in NeedPageCount /\ NoPageCount /\ ~EncryptedNoPassword)
         => /\ Returned /\ unwrap(ret) = Err("PageCountUnknown")
            /\ tasks = <<>> /\ Spawned = {}

\* render_all_pages met a Pages field one beyond u32::MAX, with a password for
\* the encrypted document.
C17_Witness ==
    /\ op = "render_all_pages" /\ Returned
    /\ K_Pages \in DOMAIN info /\ Len(info[K_Pages]) = 10
    /\ Head(info[K_Encrypted]) = YES /\ password /= None
    /\ unwrap(ret) = Err("PageCountUnknown")
    /\ Spawned = {}

\* ------------------------------------------ properties of the text output
\* The number of form feeds in a text, and the texts of a list put together with a
\* separator between each two.
RECURSIVE CountFF(_)
CountFF(t) == IF t = <<>> THEN 0 ELSE (IF Head(t) = FF THEN 1 ELSE 0) + CountFF(Tail(t))
RECURSIVE Join(_, _)
Join(ts, sep) ==
    IF ts = <<>> THEN <<>>
    ELSE IF Len(ts) = 1 THEN ts[1]
    ELSE ts[1] \o sep \o Join(Tail(ts), sep)
\* The only invocation's subprocess exited successfully; what it wrote to stdout,
\* read as text.
OnlyExitOk == Len(tasks) = 1 /\ is_some(tasks[1].output) /\ unwrap(tasks[1].output).code = Some(0)
StdoutText == from_utf8_lossy(unwrap(tasks[1].output).stdout)
\* The tool ended each of the document's pages, and nothing else, with a form feed.
FormFeedPerPage ==
    /\ PageCountKnown /\ CountFF(StdoutText) = PageCount
    /\ StdoutText = <<>> \/ StdoutText[Len(StdoutText)] = FF

\* C19: text_all_pages_split returns the segments between the form feeds of the
\* tool's output in their order (put together with a form feed between each two
\* they give the output back), none with a form feed in it, one more than there are
\* form feeds; when the tool ends each of the N pages with a form feed these are
\* N + 1 elements and the last is empty.
C19_SplitAtFormFeed ==
    (op = "text_all_pages_split" /\ Returned /\ OnlyExitOk)
        => /\ unwrap(ret).ok
           /\ Join(unwrap(ret).val, <<FF>>) = StdoutText
           /\ \A k \in DOMAIN unwrap(ret).val : CountFF(unwrap(ret).val[k]) = 0
           /\ Len(unwrap(ret).val) = CountFF(StdoutText) + 1
           /\ FormFeedPerPage
                => /\ Len(unwrap(ret).val) = PageCount + 1
                   /\ unwrap(ret).val[PageCount + 1] = <<>>

\* A document of two pages, each ended by a form feed: three elements, the first
\* not empty, the last empty.
C19_Witness ==
    /\ op = "text_all_pages_split" /\ Returned /\ OnlyExitOk /\ FormFeedPerPage
    /\ PageCount = 2
    /\ Len(unwrap(ret).val) = 3
    /\ unwrap(ret).val[1] /= <<>> /\ unwrap(ret).val[3] = <<>>

\* C20: the value text_single_page returns, and the value of each invocation of
\* text_pages, is the stdout of its subprocess without its last symbol when that
\* is a form feed, and the whole stdout otherwise.
C20_OneFormFeedPopped ==
    op \in {"text_single_page", "text_pages"}
        => /\ \A k \in DOMAIN tasks :
                (is_some(tasks[k].output) /\ unwrap(tasks[k].output).code = Some(0))
                    => LET stdout == unwrap(tasks[k].output).stdout
                           value == unwrap(tasks[k].result).val
                       IN /\ unwrap(tasks[k].result).ok
                          /\ IF stdout /= <<>> /\ stdout[Len(stdout)] = FF
                             THEN value \o <<FF>> = stdout
                             ELSE value = stdout
           /\ (op = "text_single_page" /\ Returned /\ tasks /= <<>>)
                => ret = tasks[1].result

\* text_single_page returned for a stdout of three form feeds: only the last one
\* is gone.
C20_Witness ==
    /\ op = "text_single_page" /\ Returned /\ OnlyExitOk
    /\ unwrap(tasks[1].output).stdout = <<FF, FF, FF>>
    /\ unwrap(ret).val = <<FF, FF>>

\* Both text_all_pages and text_pages were applied to the document.
BothApplied == DOMAIN applied = {"text_all_pages", "text_pages"}

\* C18 as stated: the per-page results of text_pages for the pages 1..N, joined
\* with a newline between each two, are the string text_all_pages returns.
C18_Original ==
    BothApplied => Join(applied.text_pages.val, <<NL>>) = applied.text_all_pages.val

\* C18: the per-page results of text_pages for the pages 1..N, each followed by a
\* newline (the last one too), are together the string text_all_pages returns.
C18_PagesMakeAllPages ==
    BothApplied =>
        /\ applied.text_pages.ok /\ applied.text_all_pages.ok
        /\ Len(applied.text_pages.val) = Len(arg)
        /\ Join([p \in DOMAIN arg |-> applied.text_pages.val[p] \o <<NL>>], <<>>)
              = applied.text_all_pages.val

\* A document of two different pages with text: the string of text_all_pages ends
\* with the second page's text and a newline.
C18_Witness ==
    /\ BothApplied /\ Len(arg) = 2
    /\ arg[1] /= <<>> /\ arg[2] /= <<>> /\ arg[1] /= arg[2]
    /\ applied.text_pages.val = arg
    /\ applied.text_all_pages.val = arg[1] \o <<NL>> \o arg[2] \o <<NL>>

\* ------------------------------------------- properties of the I/O errors
IoErrors == {"SpawnProcess", "WritePdf", "WaitOutput"}

\* C21: an invocation whose Command::spawn failed has the result SpawnProcess and
\* never wrote or waited; one whose write of the PDF bytes failed has the result
\* WritePdf, never waited and parsed no output; one whose wait failed has the
\* result WaitOutput; and an invocation whose subprocess exited never has one of
\* these three results, as the three are never NotPdfFile, PdfEncrypted,
\* IncorrectPassword or a tool failure.
C21_IoErrorsDistinct ==
    \A k \in DOMAIN tasks :
        /\ tasks[k].spawns <= 1 /\ tasks[k].writes <= tasks[k].spawns
        /\ tasks[k].waits <= tasks[k].writes
        /\ tasks[k].pc = "done" =>
            /\ is_some(tasks[k].result)
            /\ tasks[k].writes = 0
                 => /\ tasks[k].result = Some(Err("SpawnProcess"))
                    /\ tasks[k].waits = 0 /\ is_none(tasks[k].output)
            /\ (tasks[k].writes = 1 /\ tasks[k].waits = 0)
                 => tasks[k].result = Some(Err("WritePdf")) /\ is_none(tasks[k].output)
            /\ (tasks[k].waits = 1 /\ is_none(tasks[k].output))
                 => tasks[k].result = Some(Err("WaitOutput"))
            /\ is_some(tasks[k].output) => unwrap(tasks[k].result).kind \notin IoErrors
        /\ (op \notin BatchOps /\ Returned /\ is_none(tasks[k].output))
             => ret = tasks[k].result

\* render_single_page returned WritePdf: the subprocess was spawned, the write
\* failed, nothing was waited for.
C21_Witness ==
    /\ op = "render_single_page" /\ Returned /\ Len(tasks) = 1
    /\ unwrap(ret) = Err("WritePdf")
    /\ tasks[1].spawns = 1 /\ tasks[1].writes = 1 /\ tasks[1].waits = 0
    /\ is_none(tasks[1].output)

\* --------------------------------------------- properties of the flag list
\* The flags each option of a RenderArgs stands for; none for an unset option or
\* for the default variants MediaBox, Color and White.
ResolutionFlags(a) ==
    IF a.resolution = None THEN <<>>
    ELSE <<<<"-rx">>, to_string(unwrap(a.resolution).x),
           <<"-ry">>, to_string(unwrap(a.resolution).y)>>
ScaleToFlags(a) ==
    IF a.scale_to = None THEN <<>>
    ELSE <<<<"-scale-to-x">>, i32_to_string(unwrap(a.scale_to).x),
           <<"-scale-to-y">>, i32_to_string(unwrap(a.scale_to).y)>>
RenderAreaFlags(a) == IF a.render_area = Some("CropBox") THEN <<<<"-cropbox">>>> ELSE <<>>
RenderColorFlags(a) ==
    IF a.render_color = Some("Monochrome") THEN <<<<"-mono">>>>
    ELSE IF a.render_color = Some("Grayscale") THEN <<<<"-gray">>>>
    ELSE <<>>
PageColorFlags(a) == IF a.page_color = Some("Transparent") THEN <<<<"-transp">>>> ELSE <<>>
PasswordFlags(a) ==
    IF a.password = None THEN <<>>
    ELSE <<<<IF unwrap(a.password).kind = "Owner" THEN "-opw" ELSE "-upw">>,
           unwrap(a.password).secret>>
\* ys occurs in xs as a run of neighbouring elements.
HasRun(xs, ys) == \E i \in 0..(Len(xs) - Len(ys)) : SubSeq(xs, i + 1, i + Len(ys)) = ys

\* C22: the flag list build_args makes of a configuration is the flags of its
\* options in the order resolution, scale target, render area, render color, page
\* color, password, with nothing for an unset option or a default variant; it is
\* a function of the configuration alone, which stays as it was.
C22_BuildArgs ==
    "build_args" \in DOMAIN applied
        => /\ applied.build_args
                = ResolutionFlags(arg.args) \o ScaleToFlags(arg.args)
                    \o RenderAreaFlags(arg.args) \o RenderColorFlags(arg.args)
                    \o PageColorFlags(arg.args) \o PasswordFlags(arg.args)
           /\ "render_page_args" \in DOMAIN applied
                => HasRun(applied.render_page_args, applied.build_args)

\* Every option is set to something that has a flag: thirteen arguments from
\* -rx to the password.
C22_Witness ==
    /\ "build_args" \in DOMAIN applied
    /\ \A f \in DOMAIN arg.args : arg.args[f] /= None
    /\ arg.args.render_area = Some("CropBox") /\ arg.args.render_color = Some("Grayscale")
    /\ arg.args.page_color = Some("Transparent")
    /\ Len(applied.build_args) = 13
    /\ applied.build_args[1] = <<"-rx">> /\ applied.build_args[5] = <<"-scale-to-x">>
    /\ applied.build_args[12] = <<"-opw">>

\* The flags of a Crop and of an Antialias setting.
CropFlags(crop) ==
    <<<<"-x">>, to_string(crop.x), <<"-y">>, to_string(crop.y),
      <<"-W">>, to_string(crop.width), <<"-H">>, to_string(crop.height)>>

\* C23: when the caller has a Crop and an Antialias setting for the render, the
\* argument list of the pdftocairo command has the crop flags -x, -y, -W, -H with
\* their values and the flag -anti with its mode.
C23_CropAndAntialiasPassed ==
    "render_page_args" \in DOMAIN applied
        => /\ is_some(arg.crop) => HasRun(applied.render_page_args, CropFlags(unwrap(arg.crop)))
           /\ is_some(arg.antialias)
                => \E i \in 1..(Len(applied.render_page_args) - 1) :
                        applied.render_page_args[i] = <<"-anti">>

\* ------------------------------------------- properties of the descriptor
\* The descriptor encryption() gave, and its options.
Descriptor == unwrap(applied.encryption).val
PermissionAccessors ==
    {<<"is_print_allowed", <<"print">>>>, <<"is_copy_allowed", <<"copy">>>>,
     <<"is_change_allowed", <<"change">>>>, <<"is_add_notes_allowed", <<"addNotes">>>>}

\* C24: each of is_print_allowed, is_copy_allowed, is_change_allowed and
\* is_add_notes_allowed is true when its option is absent from the descriptor or
\* is "yes", and false only when the option is present with another value (an
\* option the Encrypted field never names is absent); algorithm() is the stored
\* algorithm name, or None when there is none.
C24_PermissionAccessors ==
    "is_print_allowed" \in DOMAIN applied =>
        /\ \A pa \in PermissionAccessors :
            /\ applied[pa[1]] =
                (pa[2] \notin DOMAIN Descriptor.options \/ Descriptor.options[pa[2]] = <<YES>>)
            /\ (\A k \in DOMAIN arg[K_Encrypted] : arg[K_Encrypted][k] /= pa[2][1])
                    => applied[pa[1]]
        /\ applied.algorithm =
            (IF <<"algorithm">> \in DOMAIN Descriptor.options
             THEN Some(Descriptor.options[<<"algorithm">>]) ELSE None)
        /\ (\A k \in DOMAIN arg[K_Encrypted] : arg[K_Encrypted][k] /= "algorithm")
                => is_none(applied.algorithm)

\* "yes (copy:no algorithm:AES-256)": printing was never named and is allowed,
\* copying is not, the algorithm is given.
C24_Witness ==
    /\ "is_print_allowed" \in DOMAIN applied
    /\ arg[K_Encrypted] =
        <<YES, " ", "(", "copy", ":", "no", " ", "algorithm", ":", "AES-256", ")">>
    /\ applied.is_print_allowed
    /\ ~applied.is_copy_allowed
    /\ applied.is_change_allowed
    /\ applied.algorithm = Some(<<"AES-256">>)

\* C26: whenever the mapping has an Encrypted field, encryption() gives a
\* descriptor, not an error, and the descriptor's is_encrypted() equals
\* encrypted(); for "yes (...)" and for a plain "no" alike.
C26_EncryptionAgreesWithEncrypted ==
    ("encryption" \in DOMAIN applied /\ K_Encrypted \in DOMAIN arg) =>
        /\ is_some(applied.encryption)
        /\ unwrap(applied.encryption).ok
        /\ is_encrypted(Descriptor) = unwrap(applied.encrypted)

\* -------------------------------------------- properties of the page numbers
\* C25: every page for which render_pages, render_single_page, text_pages or
\* text_single_page spawns a subprocess lies in 1..N, N the page count of the
\* info; page 0 is never dispatched.
C25_DispatchedPagesInRange ==
    op \in {"render_pages", "render_single_page", "text_pages", "text_single_page"} =>
        \A k \in Spawned : unwrap(tasks[k].page) \in 1..PageCount

\* ------------------------------------- properties of the two whole-document forms
\* C27: for the same output of the tool, the string text_all_pages returns is the
\* list text_all_pages_split returns with a single newline between each two
\* elements; whatever the output, without a form feed, with form feeds in a row
\* or with one at its end.
C27_AllPagesIsJoinedSplit ==
    DOMAIN applied = {"text_all_pages", "text_all_pages_split"} =>
        /\ applied.text_all_pages.ok /\ applied.text_all_pages_split.ok
        /\ applied.text_all_pages.val = Join(applied.text_all_pages_split.val, <<NL>>)

\* The output "a", form feed, form feed: two form feeds in a row, one at the end.
C27_Witness ==
    /\ DOMAIN applied = {"text_all_pages", "text_all_pages_split"}
    /\ arg = <<"a", FF, FF>>
    /\ applied.text_all_pages.val = <<"a", NL, NL>>
    /\ applied.text_all_pages_split.val = <<<<"a">>, <<>>, <<>>>>

\* --------------------------------------------- properties of the exit code
\* Invocation k exited unsuccessfully with neither message on its stderr.
OtherFailure(k) ==
    /\ ExitedUnsuccessfully(k)
    /\ ~StderrHas(k, NOT_PDF) /\ ~StderrHas(k, INCORRECT_PASSWORD)

\* C28: an invocation that exited unsuccessfully with neither "May not be a PDF
\* file" nor "Incorrect password" on its stderr gives, in the render operations,
\* PermissionError with the stderr text exactly when the exit code is 3 and
\* PdfRenderFailure with it for any other code or none; pdf_info and the text
\* operations give their generic failure with the stderr text whatever the code.
C28_ExitCode ==
    \A k \in DOMAIN tasks : OtherFailure(k) =>
        LET out == unwrap(tasks[k].output)
        IN tasks[k].result = Some(ErrMsg(
            IF op \in RenderOps
            THEN (IF out.code = Some(3) THEN "PermissionError" ELSE "PdfRenderFailure")
            ELSE IF op = "pdf_info" THEN "PdfInfoFailure" ELSE "PdfTextFailure",
            out.stderr))

\* render_single_page returned the permission error of a pdftocairo that exited
\* with code 3 and a syntax error on its stderr.
C28_Witness ==
    /\ op = "render_single_page" /\ Returned /\ Len(tasks) = 1 /\ OtherFailure(1)
    /\ unwrap(tasks[1].output).code = Some(3)
    /\ unwrap(ret) = ErrMsg("PermissionError", <<"Syntax Error">>)

\* ---------------------------------------------- properties of the empty batch
\* C29: render_pages and text_pages with an empty page list, and render_all_pages
\* on a document of 0 pages, return Ok of the empty list and spawn no subprocess,
\* when the encryption check and the page-count check pass.
C29_EmptyBatch ==
    (op \in BatchOps /\ ~EncryptedNoPassword /\ PageCountKnown /\ Requested = 0)
        => /\ Returned
           /\ unwrap(ret) = Ok(<<>>)
           /\ tasks = <<>> /\ Spawned = {}

\* render_all_pages returned for a document whose info says 0 pages.
C29_Witness ==
    /\ op = "render_all_pages" /\ ~EncryptedNoPassword /\ PageCountKnown /\ PageCount = 0
    /\ Returned /\ unwrap(ret).ok /\ unwrap(ret).val = <<>>

\* ------------------------------------------------ properties of termination
\* C30: when every subprocess takes its input and exits and the invocations are
\* polled fairly, every call of render_all_pages, render_pages and text_pages
\* returns, whatever the interleaving: Ok with one result per requested page, or
\* an error.
C30_BatchTerminates ==
    [](op \in BatchOps =>
        <>(/\ op \in BatchOps
           /\ Returned
           /\ unwrap(ret).ok => Len(unwrap(ret).val) = Requested))

\* text_pages returned the texts of two pages.
C30_Witness ==
    /\ op = "text_pages" /\ Returned /\ unwrap(ret).ok
    /\ Len(pages) = 2 /\ Len(unwrap(ret).val) = 2
    /\ \A k \in DOMAIN tasks : tasks[k].pc = "done"

====
